---- MODULE Spec2Model ----
(***************************************************************************)
(* Model of the recursive sprint accountability engine:                    *)
(*   src/src/oversight/recursive-learning-core.js                          *)
(*       VerificationLayer, AgentELORankingSystem, CriticFixerCycle        *)
(*   src/src/oversight/recursive-sprint-accountability-engine.js           *)
(*       RecursiveSprintAccountabilityEngine                               *)
(*                                                                         *)
(* Numbers.  The code computes with IEEE doubles.  Scores are modelled in  *)
(* fixed point, one unit = 1/Scale; a quotient n/d is FLOOR(n*Scale/d), so *)
(* every single quotient compares with the code's literals (0.5, 0.6,      *)
(* 0.75, 0.8, 0.9 ...) exactly as the real quotient does.  Ratings are in  *)
(* thousandths of a rating point.  The logistic Elo expectation is         *)
(* tabulated every 50 rating points and interpolated linearly (error below *)
(* 0.001).                                                                 *)
(*                                                                         *)
(* Text.  A text is a sequence of words that are already lower-case and    *)
(* free of punctuation, so toLowerCase() and replace(/[^\w\s]/g,'') leave  *)
(* each word alone; what the removal of punctuation does to a JSON text    *)
(* (it glues the neighbours of every quote, brace and comma into one       *)
(* token) is modelled by the token GLUE.                                   *)
(***************************************************************************)
EXTENDS Integers, Sequences, FiniteSets, TLC

----------------------------------------------------------------------------
(* Arithmetic helpers *)

Scale == 1000 * 1000
RatingUnit == 10 * 100

Min(a, b) == IF a < b THEN a ELSE b
Max(a, b) == IF a > b THEN a ELSE b
Abs(a) == IF a < 0 THEN -a ELSE a

\* n/d as a score
Frac(n, d) == (n * Scale) \div d
\* x * (pct/100)
Pct(x, pct) == (x * pct) \div 100

\* F at the value of e, with e evaluated once
Once(e, F(_)) == CHOOSE r \in {F(v) : v \in {e}} : TRUE

RECURSIVE SumSeq(_)
SumSeq(s) == IF s = <<>> THEN 0 ELSE Head(s) + SumSeq(Tail(s))

Range(s) == {s[i] : i \in DOMAIN s}
Front(s) == SubSeq(s, 1, Len(s) - 1)
Last(s) == s[Len(s)]
\* Array.prototype.slice(0, n)
SliceHead(s, n) == SubSeq(s, 1, Min(n, Len(s)))
\* Array.prototype.slice(-n)
SliceTail(s, n) == SubSeq(s, Max(1, Len(s) - n + 1), Len(s))
\* number of elements of s that satisfy Test
CountSeq(s, Test(_)) == Len(SelectSeq(s, Test))
\* Array.prototype.map
MapSeq(s, F(_)) ==
    Once(s, LAMBDA v :
        LET f[i \in 0..Len(v)] == IF i = 0 THEN <<>> ELSE Append(f[i - 1], F(v[i]))
        IN  f[Len(v)])

\* Array.prototype.flatMap
FlatMap(s, F(_)) ==
    Once(s, LAMBDA v :
        LET f[i \in 0..Len(v)] == IF i = 0 THEN <<>> ELSE f[i - 1] \o F(v[i])
        IN  f[Len(v)])

----------------------------------------------------------------------------
(* Text and keywords *)

\* what is left of a run of characters that held punctuation: one long token
\* that equals no word
GLUE == "<glued>"

\* String.length of a text: the words and the single blanks between them
CharLen(text) ==
    IF text = <<>> THEN 0
    ELSE SumSeq(MapSeq(text, LAMBDA w : Len(w))) + Len(text) - 1

LongWord(w) == Len(w) > 3

\* the text of two JSON strings once the punctuation between them is removed
JoinTokens(s, t) ==
    IF s = <<>> THEN t
    ELSE IF t = <<>> THEN s
    ELSE Front(s) \o <<GLUE>> \o Tail(t)

\* JSON.stringify of an array of strings, punctuation removed, split on blanks
RECURSIVE GlueJoin(_)
GlueJoin(texts) ==
    IF texts = <<>> THEN <<>>
    ELSE JoinTokens(Head(texts), GlueJoin(Tail(texts)))

\* a JSON string value that stands between keys: its first and last word are
\* glued to the keys around it
Embedded(text) ==
    IF Len(text) <= 1 THEN <<GLUE>>
    ELSE <<GLUE>> \o SubSeq(text, 2, Len(text) - 1) \o <<GLUE>>

\* VerificationLayer.extractKeywords and the engine's extractKeywords
extractKeywords(text) == SliceHead(SelectSeq(text, LongWord), 20)

\* the number of elements of s that are among those of t: s.filter(k => t.includes(k))
Matches(s, t) == Once(Range(t), LAMBDA among : CountSeq(s, LAMBDA k : k \in among))

calculateKeywordAlignment(outputKeywords, goalKeywords) ==
    Once(<<outputKeywords, goalKeywords>>, LAMBDA kw :
        IF Len(kw[2]) = 0 THEN Scale \div 2
        ELSE Frac(Matches(kw[1], kw[2]), Max(Max(Len(kw[1]), Len(kw[2])), 1)))

----------------------------------------------------------------------------
(* Values the callers supply.                                              *)
(* A TaskOutput: has<Field> says the field is defined; `enhanced` and      *)
(* `improvementCycles` are the fields phase 2 of processAgentTask writes.  *)
(* A SprintContext likewise; goals, requirements and acceptance are arrays *)
(* of texts, constraints and qualityStandards are objects.                 *)

ValidTypes == {"implementation", "debugging", "analysis", "documentation"}

\* `description || ''`
Desc(output) == IF output.hasDescription THEN output.description ELSE <<>>
\* `complexity || 0`
Cx(output) == IF output.hasComplexity THEN output.complexity ELSE 0
\* `complexity || 0.5`
CxOrHalf(output) == IF Cx(output) = 0 THEN Scale \div 2 ELSE Cx(output)

----------------------------------------------------------------------------
(* VerificationLayer *)

\* a faulty variant of thresholds: every mode as lax as dev
LaxThresholds(m) == (5 * Scale) \div 10

\* VerificationLayer.constructor: this.thresholds
thresholds(m) ==
    CASE m = "strict"   -> (9 * Scale) \div 10
      [] m = "moderate" -> (7 * Scale) \div 10
      [] m = "dev"      -> (5 * Scale) \div 10

Modes == {"strict", "moderate", "dev"}

verifySprintAlignment(agentOutput, sprintContext) ==
    LET sprintGoals == IF sprintContext.hasGoals THEN sprintContext.goals ELSE <<>>
        outputKeywords == extractKeywords(Desc(agentOutput))
        goalKeywords == FlatMap(sprintGoals, extractKeywords)
    IN  Once(calculateKeywordAlignment(outputKeywords, goalKeywords),
             LAMBDA alignmentScore :
                 [score |-> alignmentScore, passed |-> alignmentScore > (6 * Scale) \div 10])

validateOutputStructure(output) == output.hasDescription /\ output.hasType

verifyQualityStandards(agentOutput) ==
    LET hasDescription == agentOutput.hasDescription
                          /\ CharLen(agentOutput.description) > 10
        hasValidType == agentOutput.hasType /\ agentOutput.type \in ValidTypes
        hasComplexityEstimate == /\ agentOutput.hasComplexity
                                 /\ agentOutput.complexity # 0
                                 /\ agentOutput.complexity >= 0
                                 /\ agentOutput.complexity <= Scale
        hasProperStructure == validateOutputStructure(agentOutput)
        n == (IF hasDescription THEN 1 ELSE 0) + (IF hasValidType THEN 1 ELSE 0)
             + (IF hasComplexityEstimate THEN 1 ELSE 0)
             + (IF hasProperStructure THEN 1 ELSE 0)
    IN  Once(Frac(n, 4), LAMBDA qualityScore :
             [score |-> qualityScore, passed |-> qualityScore > (75 * Scale) \div 100])

\* `recent.type === output.type`: two undefined types are equal
SameType(a, b) == a.hasType = b.hasType /\ (a.hasType => a.type = b.type)

calculateConsistencyScore(output, recentOutputs) ==
    IF Len(recentOutputs) = 0 THEN Scale
    ELSE
    LET n == Len(recentOutputs)
        sameTypeOutputs == CountSeq(recentOutputs, LAMBDA r : SameType(r, output))
        avgComplexity == SumSeq(MapSeq(recentOutputs, Cx)) \div n
        outputKeywords == extractKeywords(Desc(output))
        recentKeywords == FlatMap(recentOutputs, LAMBDA r : extractKeywords(Desc(r)))
        similarity == calculateKeywordAlignment(outputKeywords, recentKeywords)
    IN  Pct(Frac(sameTypeOutputs, n), 30)
        + Pct(Max(0, Scale - 2 * Once(Cx(output) - avgComplexity, Abs)), 40)
        + Pct(similarity, 30)

DayMs == 24 * 60 * 60 * 1000

\* the verified outputs of the last 24 hours, in the order of the Map
RecentOutputs(memory, clock) ==
    MapSeq(SelectSeq(memory, LAMBDA v : v.verified /\ clock - v.timestamp < DayMs),
           LAMBDA v : v.agentOutput)

verifyCrossAgentConsistency(agentOutput, memory, clock) ==
    Once(RecentOutputs(memory, clock), LAMBDA recentOutputs :
        IF Len(recentOutputs) = 0 THEN [score |-> Scale, passed |-> TRUE]
        ELSE Once(calculateConsistencyScore(agentOutput, recentOutputs),
                  LAMBDA consistencyScore :
                      [score |-> consistencyScore,
                       passed |-> consistencyScore > Scale \div 2]))

calculateHistoricalCompliance(output, pattern) ==
    LET complexityInRange ==
            Once(Cx(output) - pattern.summary.avgComplexity, Abs) < (3 * Scale) \div 10
        outputKeywords == extractKeywords(Desc(output))
        commonKeywordMatches == Matches(outputKeywords, pattern.summary.commonKeywords)
    IN  (IF complexityInRange THEN (4 * Scale) \div 10 ELSE 0)
        + Pct(Frac(commonKeywordMatches, Max(Len(pattern.summary.commonKeywords), 1)), 40)
        + (2 * Scale) \div 10

\* the keys of the successPatterns Map
PatternKeys == ValidTypes \cup {"testing", "general"}

\* `this.successPatterns.get(agentOutput.type) || null`
verifyHistoricalCompliance(agentOutput, patterns) ==
    IF ~agentOutput.hasType \/ ~patterns[agentOutput.type].present
    THEN [score |-> (8 * Scale) \div 10, passed |-> TRUE]
    ELSE Once(calculateHistoricalCompliance(agentOutput, patterns[agentOutput.type]),
              LAMBDA complianceScore :
                  [score |-> complianceScore,
                   passed |-> complianceScore > (6 * Scale) \div 10])

\* extractKeywords(JSON.stringify(contextElement)) for the four elements
ContextKeywords(sprintContext, element) ==
    CASE element = "goals" -> extractKeywords(GlueJoin(sprintContext.goals))
      [] element = "requirements" -> extractKeywords(GlueJoin(sprintContext.requirements))
      [] element = "acceptance_criteria" -> extractKeywords(GlueJoin(sprintContext.acceptance))
      [] element = "constraints" -> <<GLUE>>

ContextHas(sprintContext, element) ==
    CASE element = "goals" -> sprintContext.hasGoals
      [] element = "requirements" -> sprintContext.hasRequirements
      [] element = "acceptance_criteria" -> sprintContext.hasAcceptance
      [] element = "constraints" -> sprintContext.hasConstraints

calculateContextElementAccuracy(output, sprintContext, element) ==
    calculateKeywordAlignment(extractKeywords(Desc(output)),
                              ContextKeywords(sprintContext, element))

contextElements == <<"goals", "requirements", "constraints", "acceptance_criteria">>

verifyContextAccuracy(agentOutput, sprintContext) ==
    LET present == SelectSeq(contextElements, LAMBDA e : ContextHas(sprintContext, e))
        sum == SumSeq(MapSeq(present,
                   LAMBDA e : calculateContextElementAccuracy(agentOutput, sprintContext, e)))
    IN  Once(sum \div Len(contextElements), LAMBDA accuracyScore :
             [score |-> accuracyScore, passed |-> accuracyScore > (6 * Scale) \div 10])

CheckNames == <<"sprintAlignment", "qualityStandards", "crossAgentConsistency",
                "historicalCompliance", "contextAccuracy">>

calculateVerificationScore(checks) ==
    SumSeq(MapSeq(CheckNames, LAMBDA c : checks[c].score)) \div Len(CheckNames)

\* the checks and the record of enforceVerification, lines 32-53
VerificationChecks(agentOutput, sprintContext, memory, patterns, clock) ==
    [sprintAlignment |-> verifySprintAlignment(agentOutput, sprintContext),
     qualityStandards |-> verifyQualityStandards(agentOutput),
     crossAgentConsistency |-> verifyCrossAgentConsistency(agentOutput, memory, clock),
     historicalCompliance |-> verifyHistoricalCompliance(agentOutput, patterns),
     contextAccuracy |-> verifyContextAccuracy(agentOutput, sprintContext)]

VerificationResult(agentOutput, sprintContext, memory, patterns, m, clock) ==
    Once(VerificationChecks(agentOutput, sprintContext, memory, patterns, clock),
         LAMBDA verificationChecks :
    Once(calculateVerificationScore(verificationChecks), LAMBDA verificationScore :
        [verificationId |-> clock,
         timestamp |-> clock,
         mode |-> m,
         score |-> verificationScore,
         threshold |-> thresholds(m),
         verified |-> verificationScore >= thresholds(m),
         checks |-> verificationChecks,
         agentOutput |-> agentOutput,
         sprintContext |-> sprintContext]))

generateImprovementGuidance(verificationResult) ==
    SelectSeq(CheckNames, LAMBDA c : ~verificationResult.checks[c].passed)

\* triggerRollback: the rollbackAction it builds and returns; enforceVerification
\* (line 57) drops the returned value and pushes the verification record
triggerRollback(verificationResult) ==
    [verificationId |-> verificationResult.verificationId,
     timestamp |-> verificationResult.timestamp,
     failedChecks |->
         MapSeq(SelectSeq(CheckNames, LAMBDA c : ~verificationResult.checks[c].passed),
                LAMBDA c : [name |-> c, score |-> verificationResult.checks[c].score]),
     improvementGuidance |-> generateImprovementGuidance(verificationResult),
     requiresReexecution |-> TRUE]

\* the keys of keywordCounts in the order of Object.entries (first use), each
\* with its count
KeywordCounts(allKeywords) ==
    LET f[i \in 0..Len(allKeywords)] ==
            IF i = 0 THEN <<>>
            ELSE IF \E j \in 1..(i - 1) : allKeywords[j] = allKeywords[i] THEN f[i - 1]
            ELSE Append(f[i - 1],
                        [keyword |-> allKeywords[i],
                         count |-> CountSeq(allKeywords, LAMBDA k : k = allKeywords[i])])
    IN  f[Len(allKeywords)]

\* .sort(([,a], [,b]) => b - a): stable, the most frequent first
SortByCount(entries) ==
    LET before(p, q) == entries[p].count > entries[q].count
                        \/ (entries[p].count = entries[q].count /\ p < q)
        rank(p) == Cardinality({q \in DOMAIN entries : before(q, p)}) + 1
        f[r \in 0..Len(entries)] ==
            IF r = 0 THEN <<>>
            ELSE Append(f[r - 1], entries[CHOOSE p \in DOMAIN entries : rank(p) = r])
    IN  f[Len(entries)]

\* calculatePatternSummary: the mean complexity and the five most frequent
\* keywords of the examples
calculatePatternSummary(examples) ==
    LET avgComplexity ==
            SumSeq(MapSeq(examples, LAMBDA ex : Cx(ex.output))) \div Len(examples)
        allKeywords == FlatMap(examples, LAMBDA ex : extractKeywords(Desc(ex.output)))
        sorted == Once(Once(allKeywords, KeywordCounts), SortByCount)
    IN  [avgComplexity |-> avgComplexity,
         commonKeywords |-> MapSeq(SliceHead(sorted, 5), LAMBDA e : e.keyword)]

NoPattern == [present |-> FALSE, count |-> 0, examples |-> <<>>,
              summary |-> [avgComplexity |-> 0, commonKeywords |-> <<>>]]

maxExamples == 10

\* `agentOutput.type || 'general'`
PatternKey(agentOutput) == IF agentOutput.hasType THEN agentOutput.type ELSE "general"

\* a faulty variant of PushExample: the push without the slice
PushOnly(examples, example) == Append(examples, example)

\* examples.push(...) and the slice(-10) that follows it
PushExample(examples, example) ==
    Once(Append(examples, example), LAMBDA pushed :
        IF Len(pushed) > maxExamples THEN SliceTail(pushed, maxExamples) ELSE pushed)

\* a faulty variant of storeSuccessPattern: it counts the output twice
StoreCountingTwice(patterns, verificationResult) ==
    [patterns EXCEPT ![PatternKey(verificationResult.agentOutput)] =
        [@ EXCEPT !.present = TRUE, !.count = @ + 2]]

\* storeSuccessPattern: the successPatterns Map after the call
storeSuccessPattern(patterns, verificationResult) ==
    LET type == PatternKey(verificationResult.agentOutput)
        pattern == patterns[type]
    IN  Once(PushExample(pattern.examples,
                         [timestamp |-> verificationResult.timestamp,
                          score |-> verificationResult.score,
                          output |-> verificationResult.agentOutput]),
             LAMBDA examples :
                 [patterns EXCEPT ![type] =
                     [present |-> TRUE, count |-> pattern.count + 1,
                      examples |-> examples,
                      summary |-> calculatePatternSummary(examples)]])

maxRollbacks == 50

\* getStats
getStats(memory, rollbacks, patterns, m) ==
    LET totalVerifications == Len(memory)
        successfulVerifications == CountSeq(memory, LAMBDA v : v.verified)
    IN  [totalVerifications |-> totalVerifications,
         successfulVerifications |-> successfulVerifications,
         rollbacks |-> Len(rollbacks),
         successRate |-> IF totalVerifications > 0
                         THEN Frac(successfulVerifications, totalVerifications) ELSE 0,
         patterns |-> Cardinality({k \in PatternKeys : patterns[k].present}),
         mode |-> m]

----------------------------------------------------------------------------
(* AgentELORankingSystem *)

initialRating == 1500
kFactor == 32
minRating == 800
maxRating == 2400
maxHistory == 50

\* 1 / (1 + 10^(-d/400)) for d = 0, 50, 100, ..., 1600 rating points
LogisticTable ==
    <<500000, 571463, 640065, 703385, 759747, 808318, 849020, 882338, 909091,
      930242, 946760, 959537, 969347, 976836, 982528, 986840, 990099, 992557,
      994408, 995801, 996848, 997634, 998225, 998668, 999001, 999251, 999438,
      999578, 999684, 999763, 999822, 999867, 999900>>

LogisticStep == 50 * RatingUnit

\* the table, interpolated, for a rating difference d >= 0
LogisticUp(d) ==
    LET k == d \div LogisticStep
    IN  IF k + 1 >= Len(LogisticTable) THEN Last(LogisticTable)
        ELSE LET lo == LogisticTable[k + 1]
                 hi == LogisticTable[k + 2]
             IN  lo + ((hi - lo) * ((d % LogisticStep) \div 100)) \div 500

Logistic(d) == IF d >= 0 THEN LogisticUp(d) ELSE Scale - LogisticUp(-d)

\* 1500 + (taskComplexity - 0.5) * 800, in thousandths of a rating point
taskDifficultyRating(taskComplexity) ==
    initialRating * RatingUnit + ((taskComplexity - Scale \div 2) * 800) \div (Scale \div RatingUnit)

calculateExpectedScore(agentRating, taskComplexity) ==
    Logistic(agentRating - taskDifficultyRating(taskComplexity))

calculateActualScore(taskResult, sprintCompliance) ==
    LET score == (IF taskResult.completed THEN (4 * Scale) \div 10 ELSE 0)
                 + (IF taskResult.quality > (8 * Scale) \div 10 THEN Scale \div 10 ELSE 0)
                 + (IF taskResult.onTime THEN Scale \div 10 ELSE 0)
                 + Pct(sprintCompliance.overallCompliance, 40)
                 + (IF taskResult.innovative THEN Scale \div 10 ELSE 0)
                 + (IF taskResult.helpedOthers THEN Scale \div 20 ELSE 0)
                 + (IF taskResult.documentation THEN Scale \div 20 ELSE 0)
    IN  Max(0, Min(Scale, score))

classifyPerformance(rating) ==
    IF rating >= 2200 * RatingUnit THEN "Master"
    ELSE IF rating >= 2000 * RatingUnit THEN "Expert"
    ELSE IF rating >= 1800 * RatingUnit THEN "Advanced"
    ELSE IF rating >= 1600 * RatingUnit THEN "Intermediate"
    ELSE IF rating >= 1400 * RatingUnit THEN "Developing"
    ELSE IF rating >= 1200 * RatingUnit THEN "Novice"
    ELSE "Beginner"

\* `this.agentRatings.get(agentId) || this.initialRating`; 0 stands for no entry
CurrentRating(ratings, agentId) ==
    IF ratings[agentId] = 0 THEN initialRating * RatingUnit ELSE ratings[agentId]

\* a faulty variant of ClampRating: no clamp
Unclamped(x) == x

\* Math.max(800, Math.min(2400, x))
ClampRating(x) == Max(minRating * RatingUnit, Min(maxRating * RatingUnit, x))

\* updateAgentRating, lines 427-438 and the record of lines 444-453
RatingUpdate(ratings, agentId, taskResult, sprintCompliance, clock) ==
    LET currentRating == CurrentRating(ratings, agentId)
        taskComplexity == IF taskResult.complexity = 0 THEN Scale \div 2
                          ELSE taskResult.complexity
    IN  Once(calculateExpectedScore(currentRating, taskComplexity), LAMBDA expectedScore :
        Once(calculateActualScore(taskResult, sprintCompliance), LAMBDA actualScore :
        Once((kFactor * (actualScore - expectedScore)) \div (Scale \div RatingUnit),
             LAMBDA ratingChange :
        Once(ClampRating(currentRating + ratingChange), LAMBDA newRating :
            [agentId |-> agentId,
             timestamp |-> clock,
             previousRating |-> currentRating,
             newRating |-> newRating,
             ratingChange |-> ratingChange,
             taskResult |-> taskResult,
             sprintCompliance |-> sprintCompliance,
             expectedScore |-> expectedScore,
             actualScore |-> actualScore,
             performanceClass |-> classifyPerformance(newRating)]))))

\* a faulty variant of storePerformanceHistory: the oldest 50 records are kept
KeepOldestHistory(history, performanceData) ==
    Once(Append(history, performanceData), LAMBDA pushed :
        IF Len(pushed) > maxHistory THEN SliceHead(pushed, maxHistory) ELSE pushed)

\* storePerformanceHistory: the agent's history after the push and the splice
storePerformanceHistory(history, performanceData) ==
    Once(Append(history, performanceData), LAMBDA pushed :
        IF Len(pushed) > maxHistory THEN SliceTail(pushed, maxHistory) ELSE pushed)

----------------------------------------------------------------------------
(* CriticFixerCycle *)

maxCycles == 3
\* this.improvementThreshold = 0.1
improvementThreshold == Scale \div 10

FactorNames == <<"sprintAlignment", "technicalQuality", "implementationFeasibility",
                 "riskAssessment", "innovationFactor">>

\* the payloads of enhanceSprintAlignment ... enhanceInnovation as they read in
\* JSON.stringify(solution) once the punctuation is gone
EnhancementTokens(area, goalMapping) ==
    CASE area = "sprintAlignment" ->
            <<GLUE, "alignment", "with", "sprint">> \o Embedded(GlueJoin(goalMapping))
      [] area = "technicalQuality" ->
            <<GLUE, "architecture", "with", "clear", "separation", "of", GLUE,
              "tests", "integration", "tests", "and", "endtoend", "testing", GLUE,
              "error", "handling", "and", GLUE,
              "review", "process", "and", "static", "analysis", "integration">>
      [] area = "implementationFeasibility" ->
            <<GLUE, "down", "into", "smaller", "manageable", GLUE, "resource", GLUE,
              "timeline", "based", "on", "team", GLUE,
              "dependency", "identification", "and", "management">>
      [] area = "riskAssessment" ->
            <<GLUE, GLUE, "of", "concept", GLUE, GLUE, "approach", "with", "mvp",
              GLUE, GLUE, "implementation", GLUE, "fallback", "options", "identified">>
      [] area = "innovationFactor" ->
            <<GLUE, "approach", "to", "problem", GLUE, "best", "practices", "and",
              "emerging", GLUE, "design", "for", "future", "enhancements">>

\* a key appended to an object: its name is glued to the token before it
AppendKey(tokens, more) == IF tokens = <<>> THEN more ELSE Front(tokens) \o more

\* JSON.stringify(solution).toLowerCase().replace(/[^\w\s]/g,'').split(/\s+/)
SolutionTokens(solution) ==
    LET f[i \in 0..Len(solution.fixes)] ==
            IF i = 0 THEN solution.tokens
            ELSE AppendKey(f[i - 1], EnhancementTokens(solution.fixes[i], solution.goalMapping))
    IN  f[Len(solution.fixes)]

extractSolutionKeywords(solution) ==
    SliceHead(SelectSeq(SolutionTokens(solution), LongWord), 20)

evaluateSprintAlignment(solution, evaluationContext) ==
    IF ~evaluationContext.hasSprintGoals THEN (7 * Scale) \div 10
    ELSE
    LET solutionKeywords == extractSolutionKeywords(solution)
    IN  Once(FlatMap(evaluationContext.sprintGoals, LAMBDA goal : SelectSeq(goal, LongWord)),
             LAMBDA goalKeywords :
        Once(Matches(solutionKeywords, goalKeywords), LAMBDA matchingKeywords :
            Min(Scale, IF 3 * Len(goalKeywords) <= 10 THEN matchingKeywords * Scale
                       ELSE (matchingKeywords * Scale * 10) \div (3 * Len(goalKeywords)))))

evaluateTechnicalQuality(solution) ==
    Min(Scale, Pct(Scale, 50 + (IF solution.technicalDetailsLong THEN 20 ELSE 0)
                             + (IF solution.hasArchitecture THEN 15 ELSE 0)
                             + (IF solution.testingStrategy THEN 10 ELSE 0)
                             + (IF solution.errorHandling THEN 5 ELSE 0)))

evaluateImplementationFeasibility(solution) ==
    LET c == solution.complexity
        score == 60 + (IF c # 0 /\ c <= (7 * Scale) \div 10 THEN 20
                       ELSE IF c # 0 /\ c > (9 * Scale) \div 10 THEN -10 ELSE 0)
                    + (IF solution.resourcesRealistic THEN 15 ELSE 0)
                    + (IF solution.timelineRealistic THEN 5 ELSE 0)
    IN  Min(Scale, Max(Scale \div 10, Pct(Scale, score)))

evaluateRiskAssessment(solution) ==
    LET riskCount == Len(solution.risks)
        mitigationCount == CountSeq(solution.risks, LAMBDA mitigated : mitigated)
        score == 70 + (IF ~solution.hasRisks THEN 0
                       ELSE IF riskCount = 0 THEN 20
                       ELSE IF 10 * mitigationCount > 8 * riskCount THEN 30
                       ELSE IF 10 * mitigationCount < 5 * riskCount THEN -20 ELSE 0)
    IN  Min(Scale, Max(Scale \div 10, Pct(Scale, score)))

evaluateInnovationFactor(solution) ==
    Min(Scale, Pct(Scale, 50 + (IF solution.innovativeFeatures THEN 30 ELSE 0)
                             + (IF solution.novelApproach THEN 20 ELSE 0)))

SolutionFactors(solution, evaluationContext) ==
    [sprintAlignment |-> evaluateSprintAlignment(solution, evaluationContext),
     technicalQuality |-> evaluateTechnicalQuality(solution),
     implementationFeasibility |-> evaluateImplementationFeasibility(solution),
     riskAssessment |-> evaluateRiskAssessment(solution),
     innovationFactor |-> evaluateInnovationFactor(solution)]

evaluateSolution(solution, evaluationContext) ==
    Once(SolutionFactors(solution, evaluationContext), LAMBDA factors :
    Once(SelectSeq(FactorNames, LAMBDA f : factors[f] < (6 * Scale) \div 10), LAMBDA weak :
        [score |-> Pct(factors.sprintAlignment, 30) + Pct(factors.technicalQuality, 25)
                   + Pct(factors.implementationFeasibility, 25)
                   + Pct(factors.riskAssessment, 15) + Pct(factors.innovationFactor, 5),
         factors |-> factors,
         strengths |-> SelectSeq(FactorNames, LAMBDA f : factors[f] > (8 * Scale) \div 10),
         weaknesses |-> weak,
         improvementAreas |-> weak]))

\* applySolutionFixes: a copy of the solution with one payload per area; a key
\* that exists keeps its place, a new key goes to the end
applySolutionFixes(solution, improvementAreas, evaluationContext) ==
    [solution EXCEPT
        !.fixes = @ \o SelectSeq(improvementAreas, LAMBDA a : a \notin Range(@)),
        !.goalMapping = IF "sprintAlignment" \in Range(improvementAreas)
                        THEN evaluationContext.sprintGoals ELSE @]

\* evaluations.sort((a, b) => b.score - a.score): stable, best first
SortByScore(evaluations) ==
    LET before(p, q) == evaluations[p].score > evaluations[q].score
                        \/ (evaluations[p].score = evaluations[q].score /\ p < q)
        rank(p) == Cardinality({q \in DOMAIN evaluations : before(q, p)}) + 1
        f[r \in 0..Len(evaluations)] ==
            IF r = 0 THEN <<>>
            ELSE Append(f[r - 1], evaluations[CHOOSE p \in DOMAIN evaluations : rank(p) = r])
    IN  f[Len(evaluations)]

\* one element of the evaluations of criticPhase
CriticResult(solution, solutionIndex, evaluationContext) ==
    Once(evaluateSolution(solution, evaluationContext), LAMBDA evaluation :
        [solutionIndex |-> solutionIndex,
         solution |-> solution,
         score |-> evaluation.score,
         strengths |-> evaluation.strengths,
         weaknesses |-> evaluation.weaknesses,
         improvementAreas |-> evaluation.improvementAreas])

criticPhase(solutions, evaluationContext) ==
    Once(solutions, LAMBDA sols :
        LET f[i \in 0..Len(sols)] ==
                IF i = 0 THEN <<>>
                ELSE Append(f[i - 1], CriticResult(sols[i], i - 1, evaluationContext))
        IN  Once(f[Len(sols)], SortByScore))

\* one element of the result of fixerPhase
FixedSolution(criticResult, evaluationContext) ==
    IF criticResult.score < (8 * Scale) \div 10 /\ Len(criticResult.improvementAreas) > 0
    THEN Once(applySolutionFixes(criticResult.solution, criticResult.improvementAreas,
                                 evaluationContext),
              LAMBDA improvedSolution :
         Once(evaluateSolution(improvedSolution, evaluationContext), LAMBDA newEvaluation :
             [originalScore |-> criticResult.score,
              improvedScore |-> newEvaluation.score,
              improvement |-> newEvaluation.score - criticResult.score,
              solution |-> improvedSolution,
              appliedFixes |-> criticResult.improvementAreas]))
    ELSE [originalScore |-> criticResult.score,
          improvedScore |-> criticResult.score,
          improvement |-> 0,
          solution |-> criticResult.solution,
          appliedFixes |-> <<>>]

fixerPhase(criticResults, evaluationContext) ==
    MapSeq(criticResults, LAMBDA criticResult : FixedSolution(criticResult, evaluationContext))

\* calculateImprovement; with no solutions both averages are 0/0 = NaN, and
\* NaN > 0.1 is false
calculateImprovement(originalResults, fixedResults) ==
    LET n == Len(originalResults)
        originalAvg == IF n = 0 THEN 0
                       ELSE SumSeq(MapSeq(originalResults, LAMBDA r : r.score)) \div n
        improvedAvg == IF n = 0 THEN 0
                       ELSE SumSeq(MapSeq(fixedResults, LAMBDA r : r.improvedScore)) \div n
    IN  Once(<<originalAvg, improvedAvg>>, LAMBDA avg :
            [isNaN |-> n = 0,
             originalAverage |-> avg[1],
             improvedAverage |-> avg[2],
             avgImprovement |-> avg[2] - avg[1],
             significantImprovement |-> n # 0 /\ avg[2] - avg[1] > improvementThreshold,
             improvementCount |-> CountSeq(fixedResults, LAMBDA r : r.improvement > 0)])

\* the while loop of evaluateAndImprove, from the state before cycle `cycle + 1`
RECURSIVE ImproveLoop(_, _, _, _)
ImproveLoop(currentSolutions, cycle, improvements, evaluationContext) ==
    IF ~(cycle < maxCycles)
    THEN [finalSolutions |-> currentSolutions, cycles |-> cycle,
          improvements |-> improvements]
    ELSE Once(criticPhase(currentSolutions, evaluationContext), LAMBDA criticResults :
         Once(fixerPhase(criticResults, evaluationContext), LAMBDA fixedSolutions :
         Once(calculateImprovement(criticResults, fixedSolutions), LAMBDA improvement :
             IF improvement.significantImprovement
             THEN ImproveLoop(MapSeq(fixedSolutions, LAMBDA fs : fs.solution), cycle + 1,
                              Append(improvements, improvement), evaluationContext)
             ELSE [finalSolutions |-> currentSolutions, cycles |-> cycle + 1,
                   improvements |-> Append(improvements, improvement)])))

\* evaluateAndImprove for solutions that are all objects (a null among them
\* makes evaluateSolution throw a TypeError)
evaluateAndImprove(solutions, evaluationContext) ==
    Once(ImproveLoop(solutions, 0, <<>>, evaluationContext), LAMBDA loop :
    LET finalEvaluation == criticPhase(loop.finalSolutions, evaluationContext)
    IN  [originalSolutions |-> solutions,
         finalSolutions |-> loop.finalSolutions,
         cycles |-> loop.cycles,
         improvements |-> loop.improvements,
         finalScores |-> MapSeq(finalEvaluation, LAMBDA cr : cr.score),
         avgImprovement |->
            SumSeq(MapSeq(loop.improvements, LAMBDA imp : imp.avgImprovement))
                \div Len(loop.improvements)])

EvaluationThrows(solutions) == \E i \in DOMAIN solutions : solutions[i].isNull

----------------------------------------------------------------------------
(* RecursiveSprintAccountabilityEngine: the pure parts *)

NoSolution ==
    [isNull |-> FALSE, name |-> "", tokens |-> <<>>, technicalDetailsLong |-> FALSE,
     hasArchitecture |-> FALSE, testingStrategy |-> FALSE, errorHandling |-> FALSE,
     complexity |-> 0, resourcesRealistic |-> FALSE, timelineRealistic |-> FALSE,
     hasRisks |-> FALSE, risks |-> <<>>, innovativeFeatures |-> FALSE,
     novelApproach |-> FALSE, fixes |-> <<>>, goalMapping |-> <<>>]

\* generateAlternativeSolutions: baseApproach and the two or three variants.
\* technicalDetails has 49 characters, so it is not "longer than 50".
generateAlternativeSolutions(taskData, sprintContext) ==
    LET description == IF Desc(taskData) = <<>> THEN <<"task", "implementation">>
                       ELSE Desc(taskData)
        head == Embedded(description) \o <<"approach", "focusing", "on", "core", GLUE>>
        baseApproach == [NoSolution EXCEPT !.hasArchitecture = TRUE,
                                           !.testingStrategy = TRUE]
        conservative == [baseApproach EXCEPT
            !.name = "Conservative Implementation",
            !.complexity = Pct(CxOrHalf(taskData), 60),
            !.hasRisks = TRUE, !.risks = <<TRUE>>,
            !.tokens = head \o <<GLUE, GLUE, "refactoring", "phase">>]
        balanced == [baseApproach EXCEPT
            !.name = "Balanced Implementation",
            !.complexity = CxOrHalf(taskData),
            !.tokens = head \o <<"implementation">>]
        innovative == [baseApproach EXCEPT
            !.name = "Innovative Implementation",
            !.complexity = Pct(CxOrHalf(taskData), 120),
            !.innovativeFeatures = TRUE, !.novelApproach = TRUE,
            !.hasRisks = TRUE, !.risks = <<TRUE, TRUE>>,
            !.tokens = head \o <<GLUE, "technology", GLUE, "of", "concept", GLUE, GLUE,
                                 "iterations">>]
    IN  <<conservative, balanced>>
        \o (IF sprintContext.allowInnovation THEN <<innovative>> ELSE <<>>)

\* the evaluation context processAgentTask and generateImprovementSuggestions
\* build: `sprintGoals: sprintContext.goals || []` is always an array
EngineEvaluationContext(sprintContext) ==
    [hasSprintGoals |-> TRUE,
     sprintGoals |-> IF sprintContext.hasGoals THEN sprintContext.goals ELSE <<>>]

\* generateImprovementSuggestions: there are always two alternatives or more
generateImprovementSuggestions(taskData, sprintContext) ==
    Once(evaluateAndImprove(generateAlternativeSolutions(taskData, sprintContext),
                            EngineEvaluationContext(sprintContext)),
         LAMBDA criticFixerResult :
            [type |-> "alternative_solutions",
             count |-> Len(criticFixerResult.finalSolutions),
             solutions |-> SliceHead(criticFixerResult.finalSolutions, 3),
             improvementCycles |-> criticFixerResult.cycles,
             averageImprovement |-> criticFixerResult.avgImprovement])

calculateGoalAlignment(taskData, goals) ==
    LET taskKeywords == extractKeywords(Desc(taskData))
    IN  Once(FlatMap(goals, extractKeywords), LAMBDA goalKeywords :
            IF Len(goalKeywords) = 0 THEN (8 * Scale) \div 10
            ELSE Min(Scale, (Matches(taskKeywords, goalKeywords) * 10 * Scale)
                            \div (3 * Len(goalKeywords))))

\* `constraints.requiredPatterns.every(...)` is a TypeError unless
\* requiredPatterns is an array
ConstraintAdherenceThrows(constraints) ==
    constraints.hasRequiredPatterns /\ ~constraints.patternsIsArray

calculateConstraintAdherence(taskData, constraints) ==
    LET overMax == /\ constraints.maxComplexity # 0
                   /\ taskData.hasComplexity
                   /\ taskData.complexity > constraints.maxComplexity
        hasRequiredPatterns ==
            \A pattern \in constraints.requiredPatterns :
                taskData.hasArchitecture /\ pattern \in taskData.architecture
        adherence == 100 - (IF overMax THEN 30 ELSE 0)
                         - (IF constraints.hasRequiredPatterns /\ ~hasRequiredPatterns
                            THEN 20 ELSE 0)
    IN  Max(0, Pct(Scale, adherence))

calculateQualityCompliance(taskData, qualityStandards) ==
    LET compliance ==
            (IF qualityStandards.requireTesting /\ taskData.testing THEN 30 ELSE 0)
            + (IF qualityStandards.requireDocumentation /\ taskData.documentation
               THEN 30 ELSE 0)
            + (IF qualityStandards.requireArchitecture /\ taskData.hasArchitecture
               THEN 20 ELSE 0)
            + (IF qualityStandards.minimumComplexity # 0 /\ taskData.hasComplexity
                  /\ taskData.complexity >= qualityStandards.minimumComplexity
               THEN 20 ELSE 0)
    IN  Min(Scale, Pct(Scale, compliance + 50))

calculateSprintCompliance(taskData, sprintContext) ==
    LET goalAlignment ==
            IF sprintContext.hasGoals /\ Len(sprintContext.goals) > 0
            THEN calculateGoalAlignment(taskData, sprintContext.goals)
            ELSE (8 * Scale) \div 10
        constraintAdherence ==
            IF sprintContext.hasConstraints
            THEN calculateConstraintAdherence(taskData, sprintContext.constraints)
            ELSE (9 * Scale) \div 10
        qualityCompliance ==
            IF sprintContext.hasQualityStandards
            THEN calculateQualityCompliance(taskData, sprintContext.qualityStandards)
            ELSE (8 * Scale) \div 10
    IN  Once([goalAlignment |-> goalAlignment,
              constraintAdherence |-> constraintAdherence,
              qualityCompliance |-> qualityCompliance],
             LAMBDA factors :
                 [overallCompliance |->
                      Min(Scale, Pct(factors.goalAlignment, 40)
                                 + Pct(factors.constraintAdherence, 30)
                                 + Pct(factors.qualityCompliance, 30)),
                  factors |-> factors])

SprintComplianceThrows(sprintContext) ==
    sprintContext.hasConstraints /\ ConstraintAdherenceThrows(sprintContext.constraints)

\* a faulty variant of NegativeOutcome: the blocked task counts as completed
CompletedOutcome(taskData, verificationResult) ==
    [completed |-> TRUE, quality |-> verificationResult.score, onTime |-> FALSE,
     complexity |-> CxOrHalf(taskData), innovative |-> FALSE,
     documentation |-> FALSE, helpedOthers |-> FALSE]

\* the taskResult of the blocked path, lines 100-105
NegativeOutcome(taskData, verificationResult) ==
    [completed |-> FALSE, quality |-> verificationResult.score, onTime |-> FALSE,
     complexity |-> CxOrHalf(taskData), innovative |-> FALSE,
     documentation |-> FALSE, helpedOthers |-> FALSE]

\* the taskResult of the approved path, lines 141-149
PositiveOutcome(taskData, verificationResult) ==
    [completed |-> TRUE, quality |-> verificationResult.score, onTime |-> TRUE,
     complexity |-> CxOrHalf(taskData), innovative |-> taskData.enhanced,
     documentation |-> taskData.documentation, helpedOthers |-> taskData.collaboration]

adaptiveMinimum == 50

\* a faulty variant of adjustAdaptiveThresholds: a high success rate takes dev
\* straight to strict
JumpToStrict(m, verificationStats) ==
    IF verificationStats.totalVerifications > adaptiveMinimum
    THEN IF verificationStats.successRate > (9 * Scale) \div 10
         THEN "strict"
         ELSE IF verificationStats.successRate < (6 * Scale) \div 10
         THEN (IF m = "strict" THEN "moderate" ELSE IF m = "moderate" THEN "dev" ELSE m)
         ELSE m
    ELSE m

\* adjustAdaptiveThresholds: the mode after the check
adjustAdaptiveThresholds(m, verificationStats) ==
    IF verificationStats.totalVerifications > adaptiveMinimum
    THEN IF verificationStats.successRate > (9 * Scale) \div 10
         THEN (IF m = "dev" THEN "moderate" ELSE IF m = "moderate" THEN "strict" ELSE m)
         ELSE IF verificationStats.successRate < (6 * Scale) \div 10
         THEN (IF m = "strict" THEN "moderate" ELSE IF m = "moderate" THEN "dev" ELSE m)
         ELSE m
    ELSE m

----------------------------------------------------------------------------
(* The inputs of the model *)

Agents == {"a1", "a2"}

NullTask ==
    [isNull |-> TRUE, hasDescription |-> FALSE, description |-> <<>>,
     hasType |-> FALSE, type |-> "", hasComplexity |-> FALSE, complexity |-> 0,
     hasSolutions |-> FALSE, solutions |-> <<>>, documentation |-> FALSE,
     collaboration |-> FALSE, hasArchitecture |-> FALSE, architecture |-> {},
     testing |-> FALSE, enhanced |-> FALSE, improvementCycles |-> 0]

AuthText == <<"implement", "secure", "user", "authentication">>

\* {description: "implement secure user authentication", type: "implementation",
\*  complexity: 0.7}
TaskGood ==
    [NullTask EXCEPT !.isNull = FALSE, !.hasDescription = TRUE, !.description = AuthText,
                     !.hasType = TRUE, !.type = "implementation",
                     !.hasComplexity = TRUE, !.complexity = (7 * Scale) \div 10]

\* a description that repeats one keyword
TaskRepeat == [TaskGood EXCEPT !.description = <<"secure", "secure", "secure">>]

\* {description: "", complexity: 1.5}: no type, complexity out of range
TaskBad ==
    [NullTask EXCEPT !.isNull = FALSE, !.hasDescription = TRUE,
                     !.hasComplexity = TRUE, !.complexity = (15 * Scale) \div 10]

\* {description: "implement secure user authentication", type: "implementation",
\*  complexity: 1.5}: only the complexity is out of range
TaskOutOfRange == [TaskGood EXCEPT !.complexity = (15 * Scale) \div 10]

JwtText == <<"implement", "secure", "auth", "with", "jwt">>

\* {description: "Implement secure auth with JWT", type: "implementation",
\*  complexity: 0.7}
TaskJwt == [TaskGood EXCEPT !.description = JwtText]

LoginText == <<"implement", "secure", "user", "login">>

\* {description: "implement secure user login", type: "implementation",
\*  complexity: 0.7}: three of its four keywords are among those of the goal
TaskLogin == [TaskGood EXCEPT !.description = LoginText]

\* a fleshed-out candidate and a minimal one
SolutionFull ==
    [NoSolution EXCEPT !.name = "full",
        !.tokens = <<GLUE, "secure", "user", GLUE, "token", "rotation", GLUE>>,
        !.technicalDetailsLong = TRUE, !.hasArchitecture = TRUE,
        !.testingStrategy = TRUE, !.errorHandling = TRUE,
        !.complexity = (6 * Scale) \div 10, !.resourcesRealistic = TRUE,
        !.hasRisks = TRUE, !.risks = <<TRUE, TRUE>>]

SolutionMinimal == [NoSolution EXCEPT !.name = "minimal", !.tokens = <<GLUE, "quick", "patch">>]

SolutionRisky ==
    [NoSolution EXCEPT !.name = "risky", !.tokens = <<GLUE, "rewrite", "everything">>,
        !.complexity = (95 * Scale) \div 100, !.hasRisks = TRUE, !.risks = <<FALSE, FALSE>>]

NullSolution == [NoSolution EXCEPT !.isNull = TRUE]

TaskSolutions ==
    [TaskGood EXCEPT !.hasSolutions = TRUE, !.solutions = <<SolutionMinimal, SolutionFull>>,
                     !.documentation = TRUE, !.testing = TRUE,
                     !.hasArchitecture = TRUE, !.architecture = {"layered"}]

\* solutions: [ {...}, null ]
TaskNullSolution ==
    [TaskGood EXCEPT !.hasSolutions = TRUE, !.solutions = <<SolutionMinimal, NullSolution>>]

NoConstraints ==
    [maxComplexity |-> 0, hasRequiredPatterns |-> FALSE, patternsIsArray |-> TRUE,
     requiredPatterns |-> {}]

NoQualityStandards ==
    [requireTesting |-> FALSE, requireDocumentation |-> FALSE,
     requireArchitecture |-> FALSE, minimumComplexity |-> 0]

NullContext ==
    [isNull |-> TRUE, hasGoals |-> FALSE, goals |-> <<>>,
     hasRequirements |-> FALSE, requirements |-> <<>>,
     hasAcceptance |-> FALSE, acceptance |-> <<>>,
     hasConstraints |-> FALSE, constraints |-> NoConstraints,
     hasQualityStandards |-> FALSE, qualityStandards |-> NoQualityStandards,
     allowInnovation |-> TRUE]

\* {} : no goals, nothing else
ContextEmpty == [NullContext EXCEPT !.isNull = FALSE]

\* {goals: ["implement secure user authentication"]}
ContextGoals == [ContextEmpty EXCEPT !.hasGoals = TRUE, !.goals = <<AuthText>>]

\* every element present
ContextFull ==
    [ContextGoals EXCEPT
        !.hasRequirements = TRUE, !.requirements = <<AuthText>>,
        !.hasAcceptance = TRUE, !.acceptance = <<AuthText>>,
        !.hasConstraints = TRUE,
        !.constraints = [maxComplexity |-> (8 * Scale) \div 10, hasRequiredPatterns |-> TRUE,
                         patternsIsArray |-> TRUE, requiredPatterns |-> {"layered"}],
        !.hasQualityStandards = TRUE,
        !.qualityStandards = [requireTesting |-> TRUE, requireDocumentation |-> TRUE,
                              requireArchitecture |-> TRUE,
                              minimumComplexity |-> (5 * Scale) \div 10],
        !.allowInnovation = FALSE]

\* {goals: ["implement secure user authentication"],
\*  requirements: ["implement secure user login"],
\*  acceptance_criteria: ["implement secure user login"]}
ContextLogin ==
    [ContextGoals EXCEPT !.hasRequirements = TRUE, !.requirements = <<LoginText>>,
                         !.hasAcceptance = TRUE, !.acceptance = <<LoginText>>]

\* {goals: [...], constraints: {requiredPatterns: "layered"}}: not an array
ContextBadPatterns ==
    [ContextGoals EXCEPT
        !.hasConstraints = TRUE,
        !.constraints = [NoConstraints EXCEPT !.hasRequiredPatterns = TRUE,
                                              !.patternsIsArray = FALSE]]

Case(agentId, taskData, sprintContext) ==
    [agentId |-> agentId, taskData |-> taskData, sprintContext |-> sprintContext]

\* the calls of processAgentTask the general specification draws from
Cases ==
    {Case("a1", TaskGood, ContextGoals),
     Case("a1", TaskBad, ContextGoals),
     Case("a1", TaskBad, ContextEmpty),
     Case("a2", TaskRepeat, ContextGoals),
     Case("a2", TaskSolutions, ContextFull),
     Case("a1", TaskNullSolution, ContextGoals),
     Case("a2", TaskGood, ContextBadPatterns),
     Case("a1", NullTask, ContextGoals),
     Case("a2", TaskGood, NullContext),
     Case("a1", TaskLogin, ContextLogin),
     Case("a1", TaskOutOfRange, ContextGoals),
     Case("a1", TaskJwt, ContextGoals)}

\* the calls of the long runs: one caller that keeps submitting the same task,
\* and may turn from the good task to the bad one
SoakCases ==
    {Case("a1", TaskGood, ContextGoals),
     Case("a1", TaskBad, ContextGoals)}

\* a taskResult with everything in its favour, for the hardest task (complexity 1)
ResultWon ==
    [completed |-> TRUE, quality |-> Scale, onTime |-> TRUE, complexity |-> Scale,
     innovative |-> TRUE, documentation |-> TRUE, helpedOthers |-> TRUE]

\* a taskResult with nothing in its favour, for an easy task (complexity 0.01)
ResultLost ==
    [completed |-> FALSE, quality |-> 0, onTime |-> FALSE, complexity |-> Scale \div 100,
     innovative |-> FALSE, documentation |-> FALSE, helpedOthers |-> FALSE]

\* the direct calls of updateAgentELO: a1 keeps losing, a2 keeps winning, and
\* they take turns
EloCases ==
    {[agentId |-> "a1", taskResult |-> ResultLost,
      sprintCompliance |-> [overallCompliance |-> 0]],
     [agentId |-> "a2", taskResult |-> ResultWon,
      sprintCompliance |-> [overallCompliance |-> Scale]]}

----------------------------------------------------------------------------
(* State *)

VARIABLES
    mode,                   \* verificationLayer.mode
    verificationMemory,     \* verificationLayer.verificationMemory, in Map order
    successPatterns,        \* verificationLayer.successPatterns
    rollbackHistory,        \* verificationLayer.rollbackHistory
    agentRatings,           \* eloSystem.agentRatings (0: no entry)
    performanceHistory,     \* eloSystem.performanceHistory
    stats,                  \* engine.stats
    agentPerformanceCache,  \* engine.agentPerformanceCache
    continuousLearning,     \* engine.continuousLearning
    adaptiveThresholds,     \* engine.adaptiveThresholds
    disk,                   \* the files under .claude/
    now,                    \* Date.now()
    pc,                     \* where the processAgentTask call in flight stands
    call,                   \* its arguments, locals and processingResult
    cf,                     \* a direct evaluateAndImprove call
    peer,                   \* a second engine instance over the same files
    other,                  \* a second call of processAgentTask in flight
    log                     \* history variables: what this engine was handed

vars == <<mode, verificationMemory, successPatterns, rollbackHistory, agentRatings,
          performanceHistory, stats, agentPerformanceCache, continuousLearning,
          adaptiveThresholds, disk, now, pc, call, cf, peer, other,
          log>>

layerVars == <<mode, verificationMemory, successPatterns, rollbackHistory>>
eloVars == <<agentRatings, performanceHistory>>
optionVars == <<continuousLearning, adaptiveThresholds>>

MaxTasks == 2
MaxDays == 1
MaxRestarts == 1
SoakTasks == 52
MaxUpdates == 125

NoRecord == [verified |-> FALSE]

NoCall ==
    [status |-> "none", agentId |-> "", taskData |-> NullTask, submitted |-> NullTask,
     sprintContext |-> NullContext, hasVerification |-> FALSE, verification |-> NoRecord,
     finalStatus |-> "", updates |-> <<>>, hasCriticFixer |-> FALSE, cycles |-> 0,
     hasSuggestions |-> FALSE, suggestionCycles |-> 0,
     preRatings |-> [a \in Agents |-> 0], preHistory |-> [a \in Agents |-> <<>>],
     prePatterns |-> [k \in PatternKeys |-> NoPattern]]

NoDisk ==
    [hasVerification |-> FALSE, verificationMemory |-> <<>>,
     successPatterns |-> [k \in PatternKeys |-> NoPattern], rollbackHistory |-> <<>>,
     hasRankings |-> FALSE, agentRatings |-> [a \in Agents |-> 0],
     performanceHistory |-> [a \in Agents |-> <<>>],
     hasStats |-> FALSE,
     stats |-> [totalTasks |-> 0, verificationsPassed |-> 0, verificationsBlocked |-> 0,
                improvementCycles |-> 0, agentsRanked |-> 0]]

NoLog ==
    [calls |-> 0, days |-> 0, restarts |-> 0, errors |-> 0,
     direct |-> [a \in Agents |-> 0],
     failed |-> <<>>,
     verified |-> [k \in PatternKeys |-> <<>>],
     rated |-> [a \in Agents |-> <<>>]]

CfIdle == [state |-> "idle"]

\* no second instance
NoPeer == [present |-> FALSE]

\* no other call in flight
NoOther == [pc |-> "idle", call |-> NoCall]

\* the constructors, lines 12-28 of the engine and 14-25, 418-424 of the core
Constructed(m, learning, adaptive) ==
    /\ mode = m
    /\ verificationMemory = <<>>
    /\ successPatterns = [k \in PatternKeys |-> NoPattern]
    /\ rollbackHistory = <<>>
    /\ agentRatings = [a \in Agents |-> 0]
    /\ performanceHistory = [a \in Agents |-> <<>>]
    /\ stats = [totalTasks |-> 0, verificationsPassed |-> 0, verificationsBlocked |-> 0,
                improvementCycles |-> 0, agentsRanked |-> 0]
    /\ agentPerformanceCache = [a \in Agents |-> <<>>]
    /\ continuousLearning = learning
    /\ adaptiveThresholds = adaptive

Init ==
    /\ \E m \in Modes, learning \in BOOLEAN : Constructed(m, learning, TRUE)
    /\ disk = NoDisk
    /\ now = 0
    /\ pc = "idle"
    /\ call = NoCall
    /\ cf = CfIdle
    /\ peer = NoPeer
    /\ other = NoOther
    /\ log = NoLog

----------------------------------------------------------------------------
(* persistence *)

\* persistVerificationMemory: the file after the write
VerificationFile(d, memory, patterns, rollbacks) ==
    [d EXCEPT !.hasVerification = TRUE,
              !.verificationMemory = memory,
              !.successPatterns = patterns,
              !.rollbackHistory = SliceTail(rollbacks, maxRollbacks)]

\* a faulty variant of RankingsFile: the entries of the file that the writer's
\* table lacks are kept
MergingRankingsFile(d, ratings, history) ==
    [d EXCEPT !.hasRankings = TRUE,
              !.agentRatings = [a \in Agents |-> IF ratings[a] = 0 THEN d.agentRatings[a]
                                                 ELSE ratings[a]],
              !.performanceHistory = [a \in Agents |-> IF ratings[a] = 0
                                                       THEN d.performanceHistory[a]
                                                       ELSE history[a]]]

\* persistRankings
RankingsFile(d, ratings, history) ==
    [d EXCEPT !.hasRankings = TRUE, !.agentRatings = ratings,
              !.performanceHistory = history]

\* persistEngineData
StatsFile(d, st) == [d EXCEPT !.hasStats = TRUE, !.stats = st]

----------------------------------------------------------------------------
(* processAgentTask *)

\* a faulty variant of RatingsRead: the table as it was when the call started
StaleRatingsRead(current, atStart) == atStart

\* line 427: updateAgentRating reads the Map in the synchronous run that also
\* writes it (line 441) and pushes the record (line 519); the first await of
\* the run is the one of persistRankings
RatingsRead(current, atStart) == current

\* the record that performanceHistory keeps, lines 444-453
PerformanceData(update) ==
    [timestamp |-> update.timestamp, previousRating |-> update.previousRating,
     newRating |-> update.newRating, ratingChange |-> update.ratingChange,
     taskResult |-> update.taskResult, sprintCompliance |-> update.sprintCompliance,
     expectedScore |-> update.expectedScore, actualScore |-> update.actualScore]

\* lines 56-76 and enforceVerification: the call up to the write of the
\* verification file.  A null taskData throws at line 62, before the try; a
\* null sprintContext throws inside verifySprintAlignment and is caught.
Submit(agentId, taskData, sprintContext) ==
    /\ pc = "idle"
    /\ now' = now + 1
    /\ stats' = [stats EXCEPT !.totalTasks = @ + 1]
    /\ LET started == [NoCall EXCEPT !.status = "running", !.agentId = agentId,
                                     !.taskData = taskData,
                                     !.submitted = taskData,
                                     !.sprintContext = sprintContext,
                                     !.preRatings = agentRatings,
                                     !.preHistory = performanceHistory,
                                     !.prePatterns = successPatterns]
       IN  IF taskData.isNull
           THEN /\ call' = [started EXCEPT !.status = "thrown"]
                /\ pc' = "idle"
                /\ log' = [log EXCEPT !.calls = @ + 1, !.errors = @ + 1]
                /\ UNCHANGED <<layerVars, disk>>
           ELSE IF sprintContext.isNull
           THEN /\ call' = [started EXCEPT !.status = "error"]
                /\ pc' = "idle"
                /\ log' = [log EXCEPT !.calls = @ + 1, !.errors = @ + 1]
                /\ UNCHANGED <<layerVars, disk>>
           ELSE \E result \in {VerificationResult(taskData, sprintContext,
                                   verificationMemory, successPatterns, mode, now + 1)} :
                    /\ rollbackHistory' = IF result.verified THEN rollbackHistory
                                          ELSE Append(rollbackHistory, result)
                    /\ successPatterns' = IF result.verified
                                          THEN storeSuccessPattern(successPatterns, result)
                                          ELSE successPatterns
                    /\ verificationMemory' = Append(verificationMemory, result)
                    /\ disk' = VerificationFile(disk, verificationMemory',
                                                successPatterns', rollbackHistory')
                    /\ call' = [started EXCEPT !.hasVerification = TRUE,
                                               !.verification = result]
                    /\ log' = IF result.verified
                              THEN [log EXCEPT !.calls = @ + 1,
                                               !.verified[PatternKey(taskData)] =
                                                   Append(@, result.timestamp)]
                              ELSE [log EXCEPT !.calls = @ + 1,
                                               !.failed = Append(@, result.verificationId)]
                    /\ pc' = "verified"
                    /\ UNCHANGED mode
    /\ UNCHANGED <<eloVars, agentPerformanceCache, optionVars, cf, peer, other>>

\* lines 79-107: the blocked path up to the write of the rankings file
ProceedBlocked ==
    /\ pc = "verified"
    /\ ~call.verification.verified
    /\ stats' = [stats EXCEPT !.verificationsBlocked = @ + 1]
    /\ \E suggestions \in {generateImprovementSuggestions(call.taskData, call.sprintContext)},
          update \in {RatingUpdate(RatingsRead(agentRatings, call.preRatings), call.agentId,
                                   NegativeOutcome(call.taskData, call.verification),
                                   [overallCompliance |-> call.verification.score], now)} :
           /\ agentRatings' = [agentRatings EXCEPT ![call.agentId] = update.newRating]
           /\ performanceHistory' =
                 [performanceHistory EXCEPT
                     ![call.agentId] = storePerformanceHistory(@, PerformanceData(update))]
           /\ call' = [call EXCEPT !.hasSuggestions = TRUE,
                                   !.suggestionCycles = suggestions.improvementCycles,
                                   !.finalStatus = "blocked",
                                   !.updates = Append(@, update)]
    /\ disk' = RankingsFile(disk, agentRatings', performanceHistory')
    /\ log' = [log EXCEPT !.rated[call.agentId] = Append(@, now)]
    /\ pc' = "rated"
    /\ UNCHANGED <<layerVars, agentPerformanceCache, optionVars, now, cf, peer, other>>

\* phase 2 applies when there are two candidate solutions or more
RunsCriticFixer ==
    continuousLearning /\ call.taskData.hasSolutions /\ Len(call.taskData.solutions) > 1

\* taskData after phase 2 (lines 130-135), given the critic-fixer result
Enhanced(taskData, criticFixerResult) ==
    IF Len(criticFixerResult.finalSolutions) > 0
    THEN [taskData EXCEPT !.solutions = criticFixerResult.finalSolutions,
                          !.enhanced = TRUE,
                          !.improvementCycles = criticFixerResult.cycles]
    ELSE taskData

\* the verification record and the success-pattern example hold the caller's
\* taskData object itself, so what phase 2 writes to it shows in both
AliasedMemory(memory, id, taskData) ==
    MapSeq(memory, LAMBDA v : IF v.verificationId = id
                               THEN [v EXCEPT !.agentOutput = taskData] ELSE v)

AliasedPatterns(patterns, id, taskData) ==
    [k \in PatternKeys |->
        [patterns[k] EXCEPT !.examples =
            MapSeq(@, LAMBDA ex : IF ex.timestamp = id THEN [ex EXCEPT !.output = taskData]
                                   ELSE ex)]]

\* phase 2 skipped: no criticFixerResult
NoCriticFixer == [finalSolutions |-> <<>>, cycles |-> 0]

\* a faulty variant of ProceedCriticFixerError: the rating is updated before
\* phase 2 runs into the null
RatedThenCriticFixerError ==
    /\ pc = "verified"
    /\ call.verification.verified
    /\ RunsCriticFixer
    /\ EvaluationThrows(call.taskData.solutions)
    /\ stats' = [stats EXCEPT !.verificationsPassed = @ + 1]
    /\ \E update \in {RatingUpdate(agentRatings, call.agentId,
                                   PositiveOutcome(call.taskData, call.verification),
                                   [overallCompliance |-> Scale], now)} :
           /\ agentRatings' = [agentRatings EXCEPT ![call.agentId] = update.newRating]
           /\ performanceHistory' =
                 [performanceHistory EXCEPT
                     ![call.agentId] = storePerformanceHistory(@, PerformanceData(update))]
    /\ call' = [call EXCEPT !.status = "error"]
    /\ pc' = "idle"
    /\ UNCHANGED <<layerVars, agentPerformanceCache, optionVars, disk, now, cf, peer, other, log>>

\* lines 110-136 with a null among the solutions: evaluateSolution throws
ProceedCriticFixerError ==
    /\ pc = "verified"
    /\ call.verification.verified
    /\ RunsCriticFixer
    /\ EvaluationThrows(call.taskData.solutions)
    /\ stats' = [stats EXCEPT !.verificationsPassed = @ + 1]
    /\ call' = [call EXCEPT !.status = "error"]
    /\ pc' = "idle"
    /\ UNCHANGED <<layerVars, eloVars, agentPerformanceCache, optionVars, disk, now, cf, peer, other, log>>

\* lines 110-149: the approved path up to the write of the rankings file, or
\* to the TypeError of calculateConstraintAdherence
ProceedApproved ==
    /\ pc = "verified"
    /\ call.verification.verified
    /\ ~(RunsCriticFixer /\ EvaluationThrows(call.taskData.solutions))
    /\ \E criticFixerResult \in
              {IF RunsCriticFixer
               THEN evaluateAndImprove(call.taskData.solutions,
                                       EngineEvaluationContext(call.sprintContext))
               ELSE NoCriticFixer} :
       \E taskData \in {IF RunsCriticFixer THEN Enhanced(call.taskData, criticFixerResult)
                        ELSE call.taskData} :
       \E afterPhase2 \in {[call EXCEPT !.taskData = taskData,
                                        !.verification.agentOutput = taskData,
                                        !.hasCriticFixer = RunsCriticFixer,
                                        !.cycles = criticFixerResult.cycles]} :
       LET id == call.verification.verificationId
       IN  /\ stats' = [stats EXCEPT
                          !.verificationsPassed = @ + 1,
                          !.improvementCycles = IF RunsCriticFixer THEN @ + 1 ELSE @]
           /\ verificationMemory' = AliasedMemory(verificationMemory, id, taskData)
           /\ successPatterns' = AliasedPatterns(successPatterns, id, taskData)
           /\ IF SprintComplianceThrows(call.sprintContext)
              THEN /\ call' = [afterPhase2 EXCEPT !.status = "error"]
                   /\ pc' = "idle"
                   /\ UNCHANGED <<eloVars, disk, log>>
              ELSE \E sprintCompliance \in
                          {calculateSprintCompliance(taskData, call.sprintContext)} :
                   \E update \in
                          {RatingUpdate(RatingsRead(agentRatings, call.preRatings),
                                        call.agentId,
                                        PositiveOutcome(taskData, call.verification),
                                        sprintCompliance, now)} :
                       /\ agentRatings' =
                             [agentRatings EXCEPT ![call.agentId] = update.newRating]
                       /\ performanceHistory' =
                             [performanceHistory EXCEPT ![call.agentId] =
                                 storePerformanceHistory(@, PerformanceData(update))]
                       /\ disk' = RankingsFile(disk, agentRatings', performanceHistory')
                       /\ log' = [log EXCEPT !.rated[call.agentId] = Append(@, now)]
                       /\ call' = [afterPhase2 EXCEPT !.updates = Append(@, update)]
                       /\ pc' = "rated"
    /\ UNCHANGED <<mode, rollbackHistory, agentPerformanceCache, optionVars, now, cf, peer, other>>

\* updateAgentELO called on its own, lines 298-300 of the engine
UpdateAgentELO(agentId, taskResult, sprintCompliance) ==
    /\ pc = "idle"
    /\ now' = now + 1
    /\ \E update \in {RatingUpdate(agentRatings, agentId, taskResult, sprintCompliance,
                                   now + 1)} :
           /\ agentRatings' = [agentRatings EXCEPT ![agentId] = update.newRating]
           /\ performanceHistory' =
                 [performanceHistory EXCEPT
                     ![agentId] = storePerformanceHistory(@, PerformanceData(update))]
    /\ disk' = RankingsFile(disk, agentRatings', performanceHistory')
    /\ log' = [log EXCEPT !.direct[agentId] = @ + 1,
                          !.rated[agentId] = Append(@, now + 1)]
    /\ UNCHANGED <<layerVars, stats, agentPerformanceCache, optionVars, pc, call, cf, peer, other>>

maxLearning == 50

\* updateContinuousLearning: the agent's cache after the push and the splice
updateContinuousLearning(cache, agentId, taskData, verificationResult, sprintCompliance) ==
    LET learningData ==
            [agentId |-> agentId, timestamp |-> now,
             hasTaskType |-> taskData.hasType, taskType |-> taskData.type,
             complexity |-> Cx(taskData),
             verificationScore |-> verificationResult.score,
             sprintCompliance |-> sprintCompliance.overallCompliance,
             successful |-> verificationResult.verified,
             improvements |-> taskData.enhanced]
    IN  Once(Append(cache[agentId], learningData), LAMBDA pushed :
            [cache EXCEPT ![agentId] = IF Len(pushed) > maxLearning
                                       THEN SliceTail(pushed, maxLearning) ELSE pushed])

\* a faulty variant of Return: the blocked path counts the agent as ranked
ReturnRankingBlocked ==
    /\ pc = "rated"
    /\ IF call.finalStatus = "blocked"
       THEN /\ call' = [call EXCEPT !.status = "blocked"]
            /\ stats' = [stats EXCEPT !.agentsRanked = @ + 1]
            /\ UNCHANGED agentPerformanceCache
       ELSE /\ stats' = [stats EXCEPT !.agentsRanked = @ + 1]
            /\ agentPerformanceCache' =
                  IF continuousLearning
                  THEN updateContinuousLearning(agentPerformanceCache, call.agentId,
                           call.taskData, call.verification,
                           Last(call.updates).sprintCompliance)
                  ELSE agentPerformanceCache
            /\ call' = [call EXCEPT !.status = "approved", !.finalStatus = "approved"]
    /\ pc' = "idle"
    /\ UNCHANGED <<layerVars, eloVars, optionVars, disk, now, cf, peer, other, log>>

\* after the rankings file is written: line 107 on the blocked path, lines
\* 151-170 on the approved one
Return ==
    /\ pc = "rated"
    /\ IF call.finalStatus = "blocked"
       THEN /\ call' = [call EXCEPT !.status = "blocked"]
            /\ UNCHANGED <<stats, agentPerformanceCache>>
       ELSE /\ stats' = [stats EXCEPT !.agentsRanked = @ + 1]
            /\ agentPerformanceCache' =
                  IF continuousLearning
                  THEN updateContinuousLearning(agentPerformanceCache, call.agentId,
                           call.taskData, call.verification,
                           Last(call.updates).sprintCompliance)
                  ELSE agentPerformanceCache
            /\ call' = [call EXCEPT !.status = "approved", !.finalStatus = "approved"]
    /\ pc' = "idle"
    /\ UNCHANGED <<layerVars, eloVars, optionVars, disk, now, cf, peer, other, log>>

----------------------------------------------------------------------------
(* the rest of the engine's life *)

\* a day goes by
TimePasses ==
    /\ log.days < MaxDays
    /\ now' = now + DayMs
    /\ log' = [log EXCEPT !.days = @ + 1]
    /\ UNCHANGED <<layerVars, eloVars, stats, agentPerformanceCache, optionVars, disk,
                   pc, call, cf, peer, other>>

\* the fields of the engine and its parts that the files keep
EngineState ==
    [verificationMemory |-> verificationMemory, successPatterns |-> successPatterns,
     rollbackHistory |-> rollbackHistory, agentRatings |-> agentRatings,
     performanceHistory |-> performanceHistory, stats |-> stats]

\* the same fields as the constructors set them
FreshEngine ==
    [verificationMemory |-> <<>>, successPatterns |-> [k \in PatternKeys |-> NoPattern],
     rollbackHistory |-> <<>>, agentRatings |-> [a \in Agents |-> 0],
     performanceHistory |-> [a \in Agents |-> <<>>],
     stats |-> [totalTasks |-> 0, verificationsPassed |-> 0, verificationsBlocked |-> 0,
                improvementCycles |-> 0, agentsRanked |-> 0]]

\* the files once shutdown has written the three of them (the directory
\* .claude/oversight is taken to exist; persistEngineData does not create it)
ShutdownFiles(d, engine) ==
    StatsFile(RankingsFile(VerificationFile(d, engine.verificationMemory,
                                            engine.successPatterns, engine.rollbackHistory),
                           engine.agentRatings, engine.performanceHistory),
              engine.stats)

\* loadVerificationMemory, loadRankings and loadEngineStats: the fields after
\* loading; a file that is missing leaves its fields as they are
Loaded(d, engine) ==
    [verificationMemory |-> IF d.hasVerification THEN d.verificationMemory
                            ELSE engine.verificationMemory,
     successPatterns |-> IF d.hasVerification THEN d.successPatterns
                         ELSE engine.successPatterns,
     rollbackHistory |-> IF d.hasVerification THEN d.rollbackHistory
                         ELSE engine.rollbackHistory,
     agentRatings |-> IF d.hasRankings THEN d.agentRatings ELSE engine.agentRatings,
     performanceHistory |-> IF d.hasRankings THEN d.performanceHistory
                            ELSE engine.performanceHistory,
     stats |-> IF d.hasStats THEN d.stats ELSE engine.stats]

\* shutdown: the three files are written
Shutdown ==
    /\ pc = "idle"
    /\ disk' = ShutdownFiles(disk, EngineState)
    /\ UNCHANGED <<layerVars, eloVars, stats, agentPerformanceCache, optionVars, now,
                   pc, call, cf, peer, other, log>>

\* initialize: loadVerificationMemory, loadRankings, loadEngineStats (a file
\* that is missing leaves the fields as they are), then adjustAdaptiveThresholds
Initialize ==
    /\ pc = "idle"
    /\ \E loaded \in {Loaded(disk, EngineState)} :
           /\ verificationMemory' = loaded.verificationMemory
           /\ successPatterns' = loaded.successPatterns
           /\ rollbackHistory' = loaded.rollbackHistory
           /\ agentRatings' = loaded.agentRatings
           /\ performanceHistory' = loaded.performanceHistory
           /\ stats' = loaded.stats
    /\ mode' = IF adaptiveThresholds
               THEN adjustAdaptiveThresholds(mode,
                        getStats(verificationMemory', rollbackHistory', successPatterns', mode))
               ELSE mode
    /\ log' = [log EXCEPT
                 !.failed = MapSeq(rollbackHistory', LAMBDA v : v.verificationId),
                 !.verified = [k \in PatternKeys |->
                                  MapSeq(successPatterns'[k].examples,
                                         LAMBDA ex : ex.timestamp)],
                 !.rated = [a \in Agents |->
                               MapSeq(performanceHistory'[a], LAMBDA h : h.timestamp)]]
    /\ UNCHANGED <<agentPerformanceCache, optionVars, disk, now, pc, call, cf, peer, other>>

\* new RecursiveSprintAccountabilityEngine(options) in the same directory
Construct(m, learning) ==
    /\ pc = "idle"
    /\ log.restarts < MaxRestarts
    /\ mode' = m
    /\ verificationMemory' = <<>>
    /\ successPatterns' = [k \in PatternKeys |-> NoPattern]
    /\ rollbackHistory' = <<>>
    /\ agentRatings' = [a \in Agents |-> 0]
    /\ performanceHistory' = [a \in Agents |-> <<>>]
    /\ stats' = [totalTasks |-> 0, verificationsPassed |-> 0, verificationsBlocked |-> 0,
                 improvementCycles |-> 0, agentsRanked |-> 0]
    /\ agentPerformanceCache' = [a \in Agents |-> <<>>]
    /\ continuousLearning' = learning
    /\ call' = NoCall
    /\ log' = [NoLog EXCEPT !.calls = log.calls, !.days = log.days,
                            !.restarts = log.restarts + 1]
    /\ UNCHANGED <<adaptiveThresholds, disk, now, pc, cf, peer, other>>

----------------------------------------------------------------------------
(* a direct call of evaluateAndImprove, one cycle of the while loop a step *)

MaxSolutions == 3

SolutionPool == {SolutionFull, SolutionMinimal, SolutionRisky, NullSolution}

SolutionSets == UNION {[1..n -> SolutionPool] : n \in 0..MaxSolutions}

EvaluationContexts ==
    {[hasSprintGoals |-> FALSE, sprintGoals |-> <<>>],
     [hasSprintGoals |-> TRUE, sprintGoals |-> <<>>],
     [hasSprintGoals |-> TRUE, sprintGoals |-> <<AuthText>>]}

CfStarted(solutions, evaluationContext) ==
    [state |-> "running", solutions |-> solutions, evaluationContext |-> evaluationContext,
     currentSolutions |-> solutions, cycle |-> 0, improvements |-> <<>>,
     sprintAlignments |-> <<>>, finalScores |-> <<>>]

\* a faulty variant of ContinueCycles: no break
AlwaysContinue(improvement) == TRUE

\* lines 617-638: `break` when the improvement is not significant
ContinueCycles(improvement) == improvement.significantImprovement

\* a faulty variant of AdoptedSolutions: the fixes are kept whatever they gained
FixesAlwaysAdopted(currentSolutions, fixedSolutions, improvement) ==
    MapSeq(fixedSolutions, LAMBDA fs : fs.solution)

\* lines 630-632: currentSolutions after the pass
AdoptedSolutions(currentSolutions, fixedSolutions, improvement) ==
    IF improvement.significantImprovement
    THEN MapSeq(fixedSolutions, LAMBDA fs : fs.solution)
    ELSE currentSolutions

\* factors.sprintAlignment of evaluateSolution for the solutions the critic
\* phase of this pass evaluates, in their order
SprintAlignments(c) ==
    MapSeq(c.currentSolutions, LAMBDA s : evaluateSprintAlignment(s, c.evaluationContext))

\* one pass of the loop body, lines 618-637
CfCycle ==
    /\ cf.state = "running"
    /\ cf.cycle < maxCycles
    /\ IF EvaluationThrows(cf.currentSolutions)
       THEN cf' = [cf EXCEPT !.state = "thrown", !.cycle = @ + 1]
       ELSE \E criticResults \in {criticPhase(cf.currentSolutions, cf.evaluationContext)} :
            \E fixedSolutions \in {fixerPhase(criticResults, cf.evaluationContext)} :
            \E improvement \in {calculateImprovement(criticResults, fixedSolutions)} :
            \E evaluated \in {[cf EXCEPT !.sprintAlignments = SprintAlignments(cf)]} :
            \E solutions \in {AdoptedSolutions(cf.currentSolutions, fixedSolutions,
                                               improvement)} :
                cf' = IF ContinueCycles(improvement)
                      THEN [evaluated EXCEPT !.cycle = @ + 1,
                                             !.improvements = Append(@, improvement),
                                             !.currentSolutions = solutions]
                      ELSE [evaluated EXCEPT !.cycle = @ + 1,
                                             !.improvements = Append(@, improvement),
                                             !.currentSolutions = solutions,
                                             !.state = "final"]
    /\ UNCHANGED <<layerVars, eloVars, stats, agentPerformanceCache, optionVars, disk,
                   now, pc, call, peer, other, log>>

\* lines 640-650: the loop is left (by break or by cycle = maxCycles)
CfFinish ==
    /\ \/ cf.state = "final"
       \/ cf.state = "running" /\ ~(cf.cycle < maxCycles)
    /\ cf' = [cf EXCEPT
                !.state = "done",
                !.finalScores = MapSeq(criticPhase(cf.currentSolutions, cf.evaluationContext),
                                       LAMBDA cr : cr.score)]
    /\ UNCHANGED <<layerVars, eloVars, stats, agentPerformanceCache, optionVars, disk,
                   now, pc, call, peer, other, log>>

----------------------------------------------------------------------------
(* two calls of processAgentTask in flight on one instance *)

OverlapCalls == 2

\* the event loop: the call that runs is suspended at an await and the other
\* call, started or not, goes on from where it was
Interleave ==
    /\ pc' = other.pc
    /\ call' = other.call
    /\ other' = [pc |-> pc, call |-> call]
    /\ <<pc, call>> # <<other.pc, other.call>>
    /\ UNCHANGED <<layerVars, eloVars, stats, agentPerformanceCache, optionVars, disk,
                   now, cf, peer, log>>

----------------------------------------------------------------------------
(* a second engine instance in another process, over the same directory *)

SharedUpdates == 2

\* new RecursiveSprintAccountabilityEngine() in the other process; of its
\* fields the model keeps those the files hold
PeerConstructed == [present |-> TRUE, engine |-> FreshEngine, updates |-> 0]

\* initialize() of the second instance: it loads the three files
PeerInitialize ==
    /\ peer.present
    /\ peer' = [peer EXCEPT !.engine = Loaded(disk, @)]
    /\ UNCHANGED <<layerVars, eloVars, stats, agentPerformanceCache, optionVars, disk,
                   now, pc, call, cf, other, log>>

\* updateAgentELO of the second instance: updateAgentRating on its own maps,
\* then persistRankings writes its whole tables
PeerUpdateAgentELO(agentId, taskResult, sprintCompliance) ==
    /\ peer.present
    /\ now' = now + 1
    /\ \E update \in {RatingUpdate(peer.engine.agentRatings, agentId, taskResult,
                                   sprintCompliance, now + 1)} :
       \E engine \in {[peer.engine EXCEPT
                           !.agentRatings[agentId] = update.newRating,
                           !.performanceHistory[agentId] =
                               storePerformanceHistory(@, PerformanceData(update))]} :
           /\ peer' = [peer EXCEPT !.engine = engine, !.updates = @ + 1]
           /\ disk' = RankingsFile(disk, engine.agentRatings, engine.performanceHistory)
    /\ UNCHANGED <<layerVars, eloVars, stats, agentPerformanceCache, optionVars, pc,
                   call, cf, other, log>>

----------------------------------------------------------------------------
(* Specifications *)

\* the engine under a few calls of any kind
Next ==
    \/ \E c \in Cases :
          /\ log.calls < MaxTasks
          /\ Submit(c.agentId, c.taskData, c.sprintContext)
    \/ ProceedBlocked
    \/ ProceedCriticFixerError
    \/ ProceedApproved
    \/ Return
    \/ TimePasses
    \/ Shutdown
    \/ Initialize
    \/ \E m \in Modes, learning \in BOOLEAN : Construct(m, learning)

Spec == Init /\ [][Next]_vars

\* the engine under a long run of one operation; it is initialized again once
\* the memory holds the samples the adaptive check asks for
InitSoak ==
    /\ \E m \in Modes, adaptive \in BOOLEAN : Constructed(m, TRUE, adaptive)
    /\ disk = NoDisk
    /\ now = 0
    /\ pc = "idle"
    /\ call = NoCall
    /\ cf = CfIdle
    /\ peer = NoPeer
    /\ other = NoOther
    /\ log = NoLog

NextSoak ==
    \/ \E c \in SoakCases :
          /\ log.calls < SoakTasks
          /\ \A a \in Agents : log.direct[a] = 0
          /\ log.calls > 0 =>
                /\ c.sprintContext = call.sprintContext
                /\ \/ c.taskData = call.taskData
                   \/ call.taskData = TaskGood /\ c.taskData = TaskBad
          /\ Submit(c.agentId, c.taskData, c.sprintContext)
    \/ \E c \in EloCases :
          /\ log.calls = 0
          /\ log.direct[c.agentId] < MaxUpdates
          /\ \A a \in Agents : log.direct[c.agentId] <= log.direct[a]
          /\ c.agentId = "a2" => log.direct["a2"] < log.direct["a1"]
          /\ UpdateAgentELO(c.agentId, c.taskResult, c.sprintCompliance)
    \/ ProceedBlocked
    \/ ProceedApproved
    \/ Return
    \/ Len(verificationMemory) >= adaptiveMinimum /\ Initialize

SpecSoak == InitSoak /\ [][NextSoak]_vars

\* the engine under task processing alone: the caller keeps submitting the good
\* task, every awaited step of a call completes, and initialize() is not called
\* again
NextTasks ==
    \/ /\ log.calls < SoakTasks
       /\ Submit("a1", TaskGood, ContextGoals)
    \/ ProceedBlocked
    \/ ProceedApproved
    \/ Return

SpecTasks == InitSoak /\ [][NextTasks]_vars /\ WF_vars(NextTasks)

\* two engine instances over one directory, each initializing and updating
\* ratings at its own pace
InitShared ==
    /\ Constructed("moderate", TRUE, TRUE)
    /\ disk = NoDisk
    /\ now = 0
    /\ pc = "idle"
    /\ call = NoCall
    /\ cf = CfIdle
    /\ peer = PeerConstructed
    /\ other = NoOther
    /\ log = NoLog

NextShared ==
    \/ \E c \in EloCases :
          /\ log.direct[c.agentId] < SharedUpdates
          /\ UpdateAgentELO(c.agentId, c.taskResult, c.sprintCompliance)
    \/ Initialize
    \/ \E c \in EloCases :
          /\ peer.updates < SharedUpdates
          /\ PeerUpdateAgentELO(c.agentId, c.taskResult, c.sprintCompliance)
    \/ PeerInitialize

SpecShared == InitShared /\ [][NextShared]_vars

\* complexities over the whole of [0, 1] and one beyond it
Complexities == {0, Scale \div 2, (7 * Scale) \div 10, Scale, (15 * Scale) \div 10}

\* {goals: []}: the list of goals is there and empty
ContextNoGoals == [ContextEmpty EXCEPT !.hasGoals = TRUE]

\* the tasks of the single call: the good task and the task with its two
\* solutions, of every type and complexity
OneTasks ==
    {[t EXCEPT !.type = type, !.complexity = complexity] :
        t \in {TaskGood, TaskSolutions},
        type \in ValidTypes \cup {"testing"},
        complexity \in Complexities}

\* a fresh engine under one call of processAgentTask
InitOne ==
    /\ \E m \in Modes : Constructed(m, TRUE, TRUE)
    /\ disk = NoDisk
    /\ now = 0
    /\ pc = "idle"
    /\ call = NoCall
    /\ cf = CfIdle
    /\ peer = NoPeer
    /\ other = NoOther
    /\ log = NoLog

NextOne ==
    \/ \E taskData \in OneTasks,
          sprintContext \in {ContextGoals, ContextEmpty, ContextNoGoals} :
          /\ log.calls = 0
          /\ Submit("a1", taskData, sprintContext)
    \/ ProceedBlocked
    \/ ProceedApproved
    \/ Return

SpecOne == InitOne /\ [][NextOne]_vars

\* one caller that starts two calls for a1 without awaiting the first
InitOverlap ==
    /\ \E m \in Modes : Constructed(m, TRUE, TRUE)
    /\ disk = NoDisk
    /\ now = 0
    /\ pc = "idle"
    /\ call = NoCall
    /\ cf = CfIdle
    /\ peer = NoPeer
    /\ other = NoOther
    /\ log = NoLog

NextOverlap ==
    \/ \E taskData \in {TaskGood, TaskBad, TaskSolutions} :
          /\ log.calls < OverlapCalls
          /\ call.status = "none"
          /\ Submit("a1", taskData, ContextGoals)
    \/ ProceedBlocked
    \/ ProceedApproved
    \/ Return
    \/ Interleave

SpecOverlap == InitOverlap /\ [][NextOverlap]_vars

\* evaluateAndImprove on its own
InitCF ==
    /\ Constructed("moderate", TRUE, TRUE)
    /\ disk = NoDisk
    /\ now = 0
    /\ pc = "idle"
    /\ call = NoCall
    /\ cf \in {CfStarted(s, c) : s \in SolutionSets, c \in EvaluationContexts}
    /\ peer = NoPeer
    /\ other = NoOther
    /\ log = NoLog

NextCF == CfCycle \/ CfFinish

SpecCF == InitCF /\ [][NextCF]_vars

----------------------------------------------------------------------------
(* Properties *)

\* every verification record that is held in memory, in the rollback list, in
\* the verification file or by the call in flight
Records ==
    Range(verificationMemory) \cup Range(rollbackHistory)
    \cup Range(disk.verificationMemory) \cup Range(disk.rollbackHistory)
    \cup (IF call.hasVerification THEN {call.verification} ELSE {})

\* the thresholds as the specification states them
StatedThreshold(m) ==
    CASE m = "strict"   -> (9 * Scale) \div 10
      [] m = "moderate" -> (7 * Scale) \div 10
      [] m = "dev"      -> (5 * Scale) \div 10

\* C1: every verification record, whatever the mode it was produced in and
\* whatever mode changes lie between the calls, is verified if and only if its
\* score reaches the threshold of the mode it records; the thresholds are
\* strict 0.9 > moderate 0.7 > dev 0.5.
VerifiedIffThreshold ==
    /\ thresholds("strict") > thresholds("moderate")
    /\ thresholds("moderate") > thresholds("dev")
    /\ \A m \in Modes : thresholds(m) = StatedThreshold(m)
    /\ \A v \in Records :
          /\ v.mode \in Modes
          /\ v.threshold = StatedThreshold(v.mode)
          /\ v.verified <=> v.score >= StatedThreshold(v.mode)

\* the memory holds a verified record of one mode and a failed one of another
VerifiedInTwoModes ==
    \E i, j \in DOMAIN verificationMemory :
        /\ verificationMemory[i].mode # verificationMemory[j].mode
        /\ verificationMemory[i].verified
        /\ ~verificationMemory[j].verified

InRatingRange(r) == 800 * RatingUnit <= r /\ r <= 2400 * RatingUnit

\* C2: after any sequence of rating updates every rating in the table and
\* every newRating returned or recorded lies in [800, 2400], and the first
\* update of an agent the table does not know starts from 1500.
RatingsInRange ==
    /\ \A a \in Agents :
          /\ agentRatings[a] # 0 => InRatingRange(agentRatings[a])
          /\ \A i \in DOMAIN performanceHistory[a] :
                InRatingRange(performanceHistory[a][i].newRating)
          /\ (log.calls = 0 /\ log.restarts = 0 /\ log.direct[a] \in 1..50)
                => performanceHistory[a][1].previousRating = 1500 * RatingUnit
    /\ \A i \in DOMAIN call.updates :
          /\ InRatingRange(call.updates[i].newRating)
          /\ call.preRatings[call.agentId] = 0
                => call.updates[i].previousRating = 1500 * RatingUnit

\* one agent was held at 800 and another at 2400 by the clamp
ClampedAtBothEnds ==
    /\ \E i \in DOMAIN performanceHistory["a1"] :
          LET h == performanceHistory["a1"][i]
          IN  /\ h.previousRating + h.ratingChange < 800 * RatingUnit
              /\ h.newRating = 800 * RatingUnit
    /\ \E i \in DOMAIN performanceHistory["a2"] :
          LET h == performanceHistory["a2"][i]
          IN  /\ h.previousRating + h.ratingChange > 2400 * RatingUnit
              /\ h.newRating = 2400 * RatingUnit

\* C3: every call of processAgentTask, a null taskData or sprintContext
\* included, returns a result whose status is approved, blocked or error; no
\* exception reaches the caller.
AlwaysReturnsStatus ==
    (pc = "idle" /\ call.status # "none")
        => call.status \in {"approved", "blocked", "error"}

\* C4: verification comes before any rating update; a call is approved only
\* if its record is verified and exactly one update with completed = true was
\* applied for the agent, and blocked only if its record is not verified and
\* exactly one update with completed = false was applied for the agent.
StatusGatedByVerification ==
    /\ Len(call.updates) > 0 =>
          /\ call.hasVerification
          /\ \A i \in DOMAIN call.updates :
                /\ call.updates[i].agentId = call.agentId
                /\ call.updates[i].timestamp >= call.verification.timestamp
    /\ call.status = "approved" =>
          /\ call.hasVerification /\ call.verification.verified
          /\ Len(call.updates) = 1
          /\ call.updates[1].taskResult.completed
          /\ Len(performanceHistory[call.agentId])
                = Min(50, Len(call.preHistory[call.agentId]) + 1)
    /\ call.status = "blocked" =>
          /\ call.hasVerification /\ ~call.verification.verified
          /\ Len(call.updates) = 1
          /\ ~call.updates[1].taskResult.completed
          /\ Len(performanceHistory[call.agentId])
                = Min(50, Len(call.preHistory[call.agentId]) + 1)

\* a call was blocked after an earlier one was approved
BlockedAfterApproved ==
    /\ call.status = "blocked"
    /\ stats.agentsRanked > 0
    /\ stats.verificationsBlocked > 0

\* C5: a call that ends with status error leaves the agent's rating and
\* performance history as they were before the call.
ErrorLeavesRating ==
    [][(call' # call /\ call'.status = "error") =>
          /\ agentRatings'[call'.agentId] = call'.preRatings[call'.agentId]
          /\ performanceHistory'[call'.agentId] = call'.preHistory[call'.agentId]]_vars

\* a call of an agent that has a rating ended in error after its verification
ErrorAfterVerification ==
    /\ call.status = "error"
    /\ call.hasVerification
    /\ call.preRatings[call.agentId] # 0
    /\ agentRatings[call.agentId] = call.preRatings[call.agentId]

\* C6: the five per-check scores and the overall score of every verification
\* record lie in [0, 1], descriptions that repeat a keyword included.
ScoresInUnitInterval ==
    \A v \in Records :
        /\ v.score \in 0..Scale
        /\ \A c \in Range(CheckNames) : v.checks[c].score \in 0..Scale

\* C7: a success pattern retains at most 10 examples and a performance history
\* at most 50 records, and what is retained is the most recent entries in the
\* order they arrived.
CapsKeepMostRecent ==
    /\ \A k \in PatternKeys :
          /\ Len(successPatterns[k].examples) <= 10
          /\ MapSeq(successPatterns[k].examples, LAMBDA ex : ex.timestamp)
                = SliceTail(log.verified[k], 10)
    /\ \A a \in Agents :
          /\ Len(performanceHistory[a]) <= 50
          /\ MapSeq(performanceHistory[a], LAMBDA h : h.timestamp)
                = SliceTail(log.rated[a], 50)

\* more than 10 verified outputs of one type and more than 50 updates of one
\* agent have arrived
BothCapsExceeded ==
    /\ \E k \in PatternKeys : Len(log.verified[k]) > 10
    /\ \E a \in Agents : Len(log.rated[a]) > 50

\* C8: the rollback list of the verification layer holds at most 50 entries,
\* the 50 most recent failed verifications, so getStats().rollbacks never
\* exceeds 50.
RollbacksCapped ==
    /\ Len(rollbackHistory) <= 50
    /\ getStats(verificationMemory, rollbackHistory, successPatterns, mode).rollbacks <= 50
    /\ MapSeq(rollbackHistory, LAMBDA v : v.verificationId) = SliceTail(log.failed, 50)

\* C9: evaluateAndImprove ends after at least 1 and at most 3 cycles; a cycle
\* whose avgImprovement is not above 0.1 is the last one, and a second or
\* third cycle starts only after a cycle whose avgImprovement was above 0.1.
CyclesBounded ==
    /\ cf.state # "idle" => cf.cycle \in 0..3
    /\ cf.state = "done" => cf.cycle \in 1..3 /\ Len(cf.improvements) = cf.cycle
    /\ cf.state \in {"done", "thrown"} \/ ENABLED NextCF
    /\ cf.state # "idle" =>
          \A i \in DOMAIN cf.improvements :
              LET imp == cf.improvements[i]
              IN  /\ (imp.isNaN \/ imp.avgImprovement <= Scale \div 10) =>
                        /\ i = Len(cf.improvements)
                        /\ cf.state \in {"final", "done"}
                  /\ i > 1 => /\ ~cf.improvements[i - 1].isNaN
                              /\ cf.improvements[i - 1].avgImprovement > Scale \div 10

\* a run of two cycles: the first improved by more than 0.1, the second did not
SecondCycleRan ==
    /\ cf.state = "done"
    /\ cf.cycle = 2
    /\ cf.improvements[1].avgImprovement > Scale \div 10
    /\ cf.improvements[2].avgImprovement <= Scale \div 10

\* C10: enforceVerification leaves the success patterns alone when the output
\* is not verified; when it is verified only the pattern of the output's type
\* changes, and its count grows by exactly 1.
PatternsFollowVerdict ==
    pc = "verified" =>
        IF call.verification.verified
        THEN /\ \A k \in PatternKeys \ {PatternKey(call.taskData)} :
                   successPatterns[k] = call.prePatterns[k]
             /\ successPatterns[PatternKey(call.taskData)].count
                   = call.prePatterns[PatternKey(call.taskData)].count + 1
        ELSE successPatterns = call.prePatterns

\* a failed verification while the table holds a pattern
FailedWithPatterns ==
    /\ pc = "verified"
    /\ ~call.verification.verified
    /\ \E k \in PatternKeys : successPatterns[k].present

\* the checks of a record whose passed flag is false
FailedChecks(v) == {c \in Range(CheckNames) : ~v.checks[c].passed}

\* C11: every entry of the rollback list holds the failed verification record
\* together with its improvement guidance, and the guidance has exactly one
\* suggestion for each check whose passed flag is false.
RollbackHoldsGuidance ==
    \A i \in DOMAIN rollbackHistory :
        /\ ~rollbackHistory[i].verified
        /\ "improvementGuidance" \in DOMAIN rollbackHistory[i]
        /\ Len(rollbackHistory[i].improvementGuidance)
              = Cardinality(FailedChecks(rollbackHistory[i]))

\* C12: every verification failure yields guidance: the guidance generated for
\* a record with verified = false, in strict, moderate or dev mode, holds at
\* least one suggestion, that is at least one of its five checks did not pass.
FailureYieldsGuidance ==
    \A v \in Records :
        ~v.verified =>
            /\ Len(generateImprovementGuidance(v)) > 0
            /\ FailedChecks(v) # {}

\* dev < moderate < strict
ModeRank(m) == CASE m = "dev" -> 1 [] m = "moderate" -> 2 [] m = "strict" -> 3

\* C13: each adaptive-threshold check moves the mode by at most one step along
\* dev < moderate < strict: with enough samples a success rate above 0.9
\* tightens it one step and a rate below 0.6 loosens it one step; a rate in
\* [0.6, 0.9] leaves it alone, and so does a high rate in strict and a low rate
\* in dev.  51 verified tasks in a row in dev mode lead to moderate.
RetunesOneStep ==
    [][(Initialize /\ adaptiveThresholds) =>
          LET st == getStats(verificationMemory', rollbackHistory', successPatterns', mode)
              enough == st.totalVerifications >= 51
              high == st.successRate > (9 * Scale) \div 10
              low == st.successRate < (6 * Scale) \div 10
          IN  /\ ModeRank(mode') - ModeRank(mode) \in {-1, 0, 1}
              /\ (enough /\ high) => ModeRank(mode') = Min(ModeRank(mode) + 1, 3)
              /\ (enough /\ low) => ModeRank(mode') = Max(ModeRank(mode) - 1, 1)
              /\ (~high /\ ~low) => mode' = mode
              /\ (mode = "dev" /\ st.totalVerifications = 51
                     /\ st.successfulVerifications = 51) => mode' = "moderate"]_vars

\* the check has run on 51 verified records, all of them made in dev mode, and
\* the mode is moderate
TightenedAfter51 ==
    /\ adaptiveThresholds
    /\ mode = "moderate"
    /\ Len(verificationMemory) = 51
    /\ \A i \in DOMAIN verificationMemory :
          verificationMemory[i].verified /\ verificationMemory[i].mode = "dev"

\* C14: the adaptive-threshold check takes effect as soon as 50 verification
\* records exist: with 50 records or more a success rate above 0.9 tightens
\* the mode one step and a rate below 0.6 loosens it one step.
RetunesFromFifty ==
    [][(Initialize /\ adaptiveThresholds) =>
          LET st == getStats(verificationMemory', rollbackHistory', successPatterns', mode)
          IN  st.totalVerifications >= 50 =>
                /\ st.successRate > (9 * Scale) \div 10
                      => ModeRank(mode') = Min(ModeRank(mode) + 1, 3)
                /\ st.successRate < (6 * Scale) \div 10
                      => ModeRank(mode') = Max(ModeRank(mode) - 1, 1)]_vars

\* the statistics the adaptive check reads
VerificationStats == getStats(verificationMemory, rollbackHistory, successPatterns, mode)

RoundTripWithoutLoss ==
    pc = "idle" => Loaded(ShutdownFiles(disk, EngineState), FreshEngine) = EngineState

\* C17: when processAgentTask has returned approved, the stored copy of the
\* engine counters already counts that task: a new engine initialized over
\* the files, with no shutdown() in between, reports the counters of the
\* engine that processed the task.
CountersFlushedOnApproval ==
    (pc = "idle" /\ call.status = "approved") =>
        /\ disk.hasStats
        /\ Loaded(disk, FreshEngine).stats = stats

\* C18: a task output is immutable once submitted: processAgentTask changes no
\* field of the caller's taskData, and the agentOutput of the stored
\* verification record stays equal to the value that was verified, whether
\* the call ends approved, blocked or in error.
OutputImmutable ==
    call.status # "none" =>
        /\ call.taskData = call.submitted
        /\ call.hasVerification =>
              /\ call.verification.agentOutput = call.submitted
              /\ \A i \in DOMAIN verificationMemory :
                    verificationMemory[i].verificationId = call.verification.verificationId
                        => verificationMemory[i].agentOutput = call.submitted

\* a task output with a required field missing (no or empty description, no
\* type) or a complexity outside [0, 1]
MissingOrOutOfRange(taskData) ==
    /\ ~taskData.isNull
    /\ \/ ~taskData.hasDescription
       \/ taskData.description = <<>>
       \/ ~taskData.hasType
       \/ taskData.hasComplexity /\ (taskData.complexity < 0 \/ taskData.complexity > Scale)

\* C19: a task output with missing required fields or an out-of-range
\* complexity fails the quality-standards check and is blocked: in every mode
\* and for every sprint context processAgentTask returns status blocked for
\* it, never approved and never a thrown failure.
MissingFieldsBlocked ==
    MissingOrOutOfRange(call.submitted) =>
        /\ call.hasVerification => ~call.verification.checks.qualityStandards.passed
        /\ (pc = "idle" /\ call.status # "none") => call.status = "blocked"

\* C20: on a fresh engine in moderate mode the output {description:
\* "Implement secure auth with JWT", type: "implementation", complexity: 0.7}
\* against the goals ["Implement secure user authentication"] gets a
\* sprint-alignment score above 0.6 and a verified record, the call is
\* approved, and the agent's rating is above 1500 afterwards.
ScenarioAApproved ==
    (/\ call.submitted = TaskJwt /\ call.sprintContext = ContextGoals
     /\ log.calls = 1 /\ log.restarts = 0
     /\ call.hasVerification /\ call.verification.mode = "moderate") =>
        /\ call.verification.checks.sprintAlignment.score > (6 * Scale) \div 10
        /\ call.verification.verified
        /\ (pc = "idle" /\ call.status # "running") =>
              /\ call.status = "approved"
              /\ agentRatings[call.agentId] > 1500 * RatingUnit

\* a solution with technical details, an architecture, a testing strategy and
\* risks that all carry a mitigation
FleshedOut(solution) ==
    /\ ~solution.isNull
    /\ solution.technicalDetailsLong /\ solution.hasArchitecture /\ solution.testingStrategy
    /\ solution.hasRisks /\ Len(solution.risks) > 0
    /\ \A i \in DOMAIN solution.risks : solution.risks[i]

\* a solution with none of these
Bare(solution) ==
    /\ ~solution.isNull
    /\ ~solution.technicalDetailsLong /\ ~solution.hasArchitecture
    /\ ~solution.testingStrategy /\ ~solution.hasRisks

\* C21: for a fleshed-out solution and a bare one evaluated in the same
\* context, the critic phase scores the first strictly higher and the fixer
\* phase regenerates only the second: the first comes through as the same
\* solution with no applied fixes.
FixerOnlyMutatesBare ==
    (/\ cf.state # "idle" /\ cf.cycle >= 1
     /\ Len(cf.solutions) = 2
     /\ FleshedOut(cf.solutions[1]) /\ Bare(cf.solutions[2])) =>
        LET criticResults == criticPhase(cf.solutions, cf.evaluationContext)
            first == CHOOSE cr \in Range(criticResults) : cr.solutionIndex = 0
            second == CHOOSE cr \in Range(criticResults) : cr.solutionIndex = 1
            fixedFirst == FixedSolution(first, cf.evaluationContext)
            fixedSecond == FixedSolution(second, cf.evaluationContext)
        IN  /\ first.score > second.score
            /\ fixedFirst.solution = cf.solutions[1]
            /\ fixedFirst.appliedFixes = <<>>
            /\ fixedSecond.solution # cf.solutions[2]

\* C22: two engine instances share one directory; each write of the rankings
\* file replaces it by the writer's whole tables, so an update that one
\* instance has persisted can be overwritten by the other's later write and be
\* absent from the stored state.
WritesReplaceWholeFile ==
    [][(disk'.agentRatings # disk.agentRatings
          \/ disk'.performanceHistory # disk.performanceHistory) =>
          \/ /\ peer' = peer
             /\ disk'.agentRatings = agentRatings'
             /\ disk'.performanceHistory = performanceHistory'
          \/ /\ peer' # peer
             /\ agentRatings' = agentRatings
             /\ disk'.agentRatings = peer'.engine.agentRatings
             /\ disk'.performanceHistory = peer'.engine.performanceHistory]_vars

\* the first instance has persisted an update of a1; the second wrote later,
\* and the file holds neither a rating nor a history of a1
UpdateOverwritten ==
    /\ log.direct["a1"] > 0
    /\ peer.present /\ peer.updates > 0
    /\ disk.hasRankings
    /\ disk.agentRatings["a1"] = 0
    /\ disk.performanceHistory["a1"] = <<>>

\* the context accuracy as the specification states it: the sum of the scores
\* of the present elements over the number of present elements
AveragedOverPresent(agentOutput, sprintContext) ==
    LET present == SelectSeq(contextElements, LAMBDA e : ContextHas(sprintContext, e))
        sum == SumSeq(MapSeq(present,
                   LAMBDA e : calculateContextElementAccuracy(agentOutput, sprintContext, e)))
    IN  IF present = <<>> THEN 0 ELSE sum \div Len(present)

\* C23: the context-accuracy score of every verification record is the sum of
\* the keyword overlaps of the present context elements divided by the number
\* of present elements, so a context that supplies only goals scores exactly
\* the goals overlap.
ContextAccuracyAveragesPresent ==
    \A v \in Records :
        v.checks.contextAccuracy.score = AveragedOverPresent(v.agentOutput, v.sprintContext)

\* C24: every output with a description longer than 10 characters, a type of
\* the valid enum and a complexity anywhere in [0, 1], the endpoints included,
\* holds all four quality sub-checks, scores 1.0 and passes; and the check
\* passes only with all four sub-checks (a score of 0.75 does not pass).
QualityOverWholeRange ==
    \A v \in Records :
        LET output == v.agentOutput
            quality == v.checks.qualityStandards
        IN  /\ (/\ output.hasDescription /\ CharLen(output.description) > 10
                /\ output.hasType /\ output.type \in ValidTypes
                /\ output.hasComplexity
                /\ output.complexity >= 0 /\ output.complexity <= Scale)
                   => quality.score = Scale /\ quality.passed
            /\ quality.passed => quality.score = Scale

\* C25: for every task complexity in [0, 1], 0 included, the rating update of
\* the call uses the difficulty 1500 + (complexity - 0.5) * 800: complexity 0
\* gives 1100, complexity 1 gives 1900, the difficulty increases strictly with
\* the complexity, and the expected score of the update is the one against
\* that difficulty.
DifficultyFollowsComplexity ==
    /\ taskDifficultyRating(0) = 1100 * RatingUnit
    /\ taskDifficultyRating(Scale) = 1900 * RatingUnit
    /\ \A c1, c2 \in Complexities :
          c1 < c2 => taskDifficultyRating(c1) < taskDifficultyRating(c2)
    /\ \A i \in DOMAIN call.updates :
          LET update == call.updates[i]
              complexity == call.submitted.complexity
          IN  (call.submitted.hasComplexity /\ complexity >= 0 /\ complexity <= Scale)
                 => update.expectedScore =
                        Logistic(update.previousRating - taskDifficultyRating(complexity))

\* C26: when the sprint has no goals (goals absent or an empty list), the
\* sprintAlignment factor of the critic is the default 0.7 for every solution
\* it evaluates.
NoGoalsDefaultAlignment ==
    (cf.state \in {"running", "final", "done"}
       /\ (~cf.evaluationContext.hasSprintGoals \/ cf.evaluationContext.sprintGoals = <<>>))
    => \A i \in DOMAIN cf.sprintAlignments : cf.sprintAlignments[i] = (7 * Scale) \div 10

\* the solutions the fixer phase hands back for the current ones
Regenerated(c) ==
    MapSeq(fixerPhase(criticPhase(c.currentSolutions, c.evaluationContext),
                      c.evaluationContext),
           LAMBDA fs : fs.solution)

\* C27: the fixes of a cycle are adopted only when the improvement of that
\* cycle is significant (avgImprovement > 0.1): a significant cycle replaces
\* the current solutions by the regenerated ones, any other cycle leaves them
\* as they were and ends the loop, so a first cycle that is not significant
\* returns the original sequence; the improvements list has one entry per
\* cycle run.
FixesAdoptedOnlyWhenSignificant ==
    [][(cf.state = "running" /\ cf'.state \in {"running", "final", "done"}) =>
          /\ Len(cf'.improvements) = cf'.cycle
          /\ cf'.cycle = cf.cycle + 1 =>
                LET improvement == Last(cf'.improvements)
                IN  IF improvement.avgImprovement > improvementThreshold
                        /\ ~improvement.isNaN
                    THEN cf'.currentSolutions = Regenerated(cf)
                    ELSE /\ cf'.currentSolutions = cf.currentSolutions
                         /\ cf'.state = "final"
          /\ cf'.cycle = cf.cycle => cf'.currentSolutions = cf.currentSolutions
          /\ (cf'.cycle >= 1
                /\ ~(cf'.improvements[1].avgImprovement > improvementThreshold))
                => cf'.currentSolutions = cf'.solutions]_vars

\* the first cycle was significant and its fixes are the final solutions; the
\* second was not and ended the loop
FirstCycleAdopted ==
    /\ cf.state = "done"
    /\ cf.cycle = 2
    /\ Len(cf.improvements) = 2
    /\ cf.improvements[1].significantImprovement
    /\ ~cf.improvements[2].significantImprovement
    /\ cf.currentSolutions # cf.solutions

\* C28: after any sequence of rating updates the retained history of every
\* agent is a chain: each record's previousRating is the newRating of the
\* record before it, each newRating is previousRating + ratingChange clamped
\* to [800, 2400], and the newRating of the last record is the rating stored
\* for the agent.
HistoryIsChain ==
    \A a \in Agents :
        LET history == performanceHistory[a]
        IN  /\ \A i \in 2..Len(history) :
                  history[i].previousRating = history[i - 1].newRating
            /\ \A i \in DOMAIN history :
                  history[i].newRating =
                      Max(800 * RatingUnit,
                          Min(2400 * RatingUnit,
                              history[i].previousRating + history[i].ratingChange))
            /\ history # <<>> => Last(history).newRating = agentRatings[a]

\* a1 was updated more often than the history retains, and the clamp has held
\* it at 800
ChainPastCapAndClamp ==
    /\ log.direct["a1"] > maxHistory
    /\ Len(performanceHistory["a1"]) = maxHistory
    /\ agentRatings["a1"] = 800 * RatingUnit
    /\ Last(performanceHistory["a1"]).previousRating
          + Last(performanceHistory["a1"]).ratingChange < 800 * RatingUnit

\* C29: two calls of processAgentTask for one agent overlap on one instance;
\* no rating update is lost: once both have updated the rating, the history
\* has the records of both, the second record's previousRating is the first
\* record's newRating, and the stored rating is the second record's newRating.
OverlapLosesNoUpdate ==
    (call.updates # <<>> /\ other.call.updates # <<>>) =>
        LET history == performanceHistory["a1"]
        IN  /\ Len(history) = 2
            /\ {history[1], history[2]} =
                  {PerformanceData(call.updates[1]), PerformanceData(other.call.updates[1])}
            /\ history[1].previousRating = initialRating * RatingUnit
            /\ history[2].previousRating = history[1].newRating
            /\ history[2].newRating =
                  ClampRating(history[2].previousRating + history[2].ratingChange)
            /\ agentRatings["a1"] = history[2].newRating

\* both calls were in flight together: both were verified before either was
\* rated, and the call that started later was rated first
BothRatedAfterOverlap ==
    /\ call.updates # <<>> /\ other.call.updates # <<>>
    /\ LET history == performanceHistory["a1"]
           later == IF call.verification.timestamp > other.call.verification.timestamp
                    THEN call ELSE other.call
       IN  /\ Len(history) = 2
           /\ history[1] = PerformanceData(later.updates[1])
           /\ history[1].timestamp >= later.verification.timestamp
           /\ history[2].ratingChange # history[1].ratingChange

\* a step of a processAgentTask call
ProcessStep == pc # "idle" \/ pc' # "idle" \/ log'.calls # log.calls

====
